---- MODULE Spec2Model ----
(***************************************************************************)
(* YAML key search / find-and-replace engine (extension.js).               *)
(*                                                                         *)
(* Text is modelled at character level: a string is a sequence of          *)
(* one-character strings, a file is the string fs[f].                      *)
(***************************************************************************)
EXTENDS Integers, Sequences, FiniteSets, TLC

(***************************************************************************)
(* Characters                                                              *)
(***************************************************************************)
NL == "\n"
CR == "\r"
SP == " "
SQ == "'"
DQ == "\""
BSL == "\\"
COLON == ":"
HASH == "#"
DOLLAR == "$"
DASH == "-"
PLUS == "+"

Digits == {"0", "1", "2", "3", "4", "5", "6", "7", "8", "9"}

\* JS \s restricted to the characters of the model
IsWs(c) == c \in {SP, NL, CR, "\t"}

\* JS line terminators: '.' does not match them, '$' and '^' (flag m) see them
IsLineTerm(c) == c \in {NL, CR}

(***************************************************************************)
(* String primitives of the JS runtime                                     *)
(***************************************************************************)
Slice(s, i, j) == IF j < i THEN << >> ELSE SubSeq(s, i, j)

\* an array filled element by element: the sequence f with its elements
\* computed once
ArrayOf(f) == f \o << >>

RECURSIVE Flatten(_)
Flatten(ss) == IF ss = << >> THEN << >> ELSE Head(ss) \o Flatten(Tail(ss))

\* String.prototype.startsWith / endsWith
StartsWith(s, p) == Len(p) <= Len(s) /\ Slice(s, 1, Len(p)) = p
EndsWith(s, p) == Len(p) <= Len(s) /\ Slice(s, Len(s) - Len(p) + 1, Len(s)) = p

\* String.prototype.includes
Includes(s, sub) ==
    \E i \in 1..(Len(s) - Len(sub) + 1) : Slice(s, i, i + Len(sub) - 1) = sub

\* number of leading / trailing whitespace characters
RECURSIVE WsRun(_, _)
WsRun(s, i) == IF i <= Len(s) /\ IsWs(s[i]) THEN 1 + WsRun(s, i + 1) ELSE 0

RECURSIVE WsRunBack(_, _)
WsRunBack(s, i) == IF i >= 1 /\ IsWs(s[i]) THEN 1 + WsRunBack(s, i - 1) ELSE 0

\* String.prototype.trim
Trim(s) ==
    LET a == WsRun(s, 1)
    IN  IF a = Len(s) THEN << >>
        ELSE Slice(s, a + 1, Len(s) - WsRunBack(s, Len(s)))

\* String.prototype.split('\n')
RECURSIVE SplitFrom(_, _, _)
SplitFrom(s, i, start) ==
    IF i > Len(s) THEN << Slice(s, start, Len(s)) >>
    ELSE IF s[i] = NL THEN << Slice(s, start, i - 1) >> \o SplitFrom(s, i + 1, i + 1)
    ELSE SplitFrom(s, i + 1, start)

SplitNL(s) == SplitFrom(s, 1, 1)

\* Array.prototype.join('\n')
RECURSIVE JoinNL(_)
JoinNL(ls) ==
    IF ls = << >> THEN << >>
    ELSE IF Len(ls) = 1 THEN ls[1]
    ELSE ls[1] \o << NL >> \o JoinNL(Tail(ls))

\* String.prototype.toLowerCase on the letters of the model
LowerChar(c) ==
    CASE c = "Y" -> "y" [] c = "E" -> "e" [] c = "S" -> "s" [] c = "T" -> "t"
      [] c = "R" -> "r" [] c = "U" -> "u" [] c = "N" -> "n" [] c = "O" -> "o"
      [] OTHER -> c

ToLowerCase(s) == [i \in 1..Len(s) |-> LowerChar(s[i])]

\* s.replace(/c/g, rep): every occurrence of character c replaced by string rep
ReplaceChar(s, c, rep) ==
    Flatten(ArrayOf([i \in 1..Len(s) |-> IF s[i] = c THEN rep ELSE << s[i] >>]))

\* isNaN(s) is false: Number(s) is a number.  Number() trims whitespace, maps
\* the empty string to 0 and accepts decimal digit strings (signs, fractions
\* and exponents are outside the values of the model).
AllDigits(t) == \A i \in 1..Len(t) : t[i] \in Digits

IsNumeric(s) == AllDigits(Trim(s))

(***************************************************************************)
(* Document segmentation: content.split(/^---\s*$/m)                       *)
(***************************************************************************)
\* '^' with flag m: start of input or just after a line terminator
AtLineStart(s, i) == i = 1 \/ (i > 1 /\ IsLineTerm(s[i - 1]))

\* The set of positions k of line terminators inside the whitespace run that
\* follows the three dashes at i; '$' with flag m matches just before one.
SepTermPositions(s, i) ==
    {k \in (i + 3)..(i + 2 + WsRun(s, i + 3)) : IsLineTerm(s[k])}

\* Does /^---\s*$/m match at i, and where does the match end (exclusive)?
\* \s* is greedy: it runs to the end of input if the whitespace run reaches
\* it, else it backtracks to just before the last line terminator of the run.
SepMatches(s, i) ==
    /\ AtLineStart(s, i)
    /\ i + 2 <= Len(s)
    /\ Slice(s, i, i + 2) = << DASH, DASH, DASH >>
    /\ \/ i + 2 + WsRun(s, i + 3) = Len(s)
       \/ SepTermPositions(s, i) # {}

SepEnd(s, i) ==
    IF i + 2 + WsRun(s, i + 3) = Len(s) THEN Len(s) + 1
    ELSE CHOOSE k \in SepTermPositions(s, i) :
            \A k2 \in SepTermPositions(s, i) : k2 <= k

RECURSIVE SplitDocsFrom(_, _, _)
SplitDocsFrom(s, i, start) ==
    IF i > Len(s) THEN << Slice(s, start, Len(s)) >>
    ELSE IF SepMatches(s, i)
         THEN << Slice(s, start, i - 1) >> \o SplitDocsFrom(s, SepEnd(s, i), SepEnd(s, i))
         ELSE SplitDocsFrom(s, i + 1, start)

SplitDocs(s) == SplitDocsFrom(s, 1, 1)

(***************************************************************************)
(* yaml.parse on the block-mapping subset the files of the model use:      *)
(* lines "<indent><key>:[ <scalar>][ #comment]", nesting by indentation,   *)
(* plain / single-quoted / double-quoted scalars (YAML 1.2 core schema).   *)
(* A value is [t |-> type, v |-> text or entries]; t = "err" stands for    *)
(* yaml.parse throwing.                                                    *)
(***************************************************************************)
VErr == [t |-> "err", v |-> << >>]
VNull == [t |-> "null", v |-> << >>]
VStr(s) == [t |-> "str", v |-> s]
VNum(s) == [t |-> "num", v |-> s]
VBool(s) == [t |-> "bool", v |-> s]
VMap(es) == [t |-> "map", v |-> es]
\* a sequence: v holds its items (a JavaScript array)
VSeq(es) == [t |-> "seq", v |-> es]

S_true == << "t", "r", "u", "e" >>
S_false == << "f", "a", "l", "s", "e" >>

\* the spellings the core schema resolves to a boolean
BoolTrue == {S_true, << "T", "r", "u", "e" >>, << "T", "R", "U", "E" >>}
BoolFalse == {S_false, << "F", "a", "l", "s", "e" >>, << "F", "A", "L", "S", "E" >>}

\* characters a plain scalar may not start with
PlainForbiddenStart == {SQ, DQ, "[", "]", "{", "}", HASH, "&", "!", "|", ">", "%", "@", ","}

\* first index >= i where a comment starts (" #"), or Len+1
RECURSIVE CommentStart(_, _)
CommentStart(s, i) ==
    IF i > Len(s) THEN Len(s) + 1
    ELSE IF s[i] = HASH /\ (i = 1 \/ IsWs(s[i - 1])) THEN i
    ELSE CommentStart(s, i + 1)

\* text that may follow a closed quoted scalar: whitespace, then optionally a comment
OnlyCommentAfter(s, i) ==
    LET w == WsRun(s, i)
    IN  \/ i + w > Len(s)
        \/ (w > 0 /\ s[i + w] = HASH)

\* single-quoted scalar body starting at i (after the opening quote):
\* result <<ok, text, next index>>
RECURSIVE ScanSingle(_, _, _)
ScanSingle(s, i, acc) ==
    IF i > Len(s) THEN << FALSE, acc, i >>
    ELSE IF s[i] = SQ
         THEN IF i + 1 <= Len(s) /\ s[i + 1] = SQ
              THEN ScanSingle(s, i + 2, Append(acc, SQ))
              ELSE << TRUE, acc, i + 1 >>
         ELSE ScanSingle(s, i + 1, Append(acc, s[i]))

\* double-quoted scalar body; escapes \" \\ \n \t \r \0 are decoded, any
\* other escape is an error of the parser
EscapeOf(c) ==
    CASE c = DQ -> << DQ >> [] c = BSL -> << BSL >> [] c = "n" -> << NL >>
      [] c = "t" -> << "\t" >> [] c = "r" -> << CR >> [] OTHER -> << >>

RECURSIVE ScanDouble(_, _, _)
ScanDouble(s, i, acc) ==
    IF i > Len(s) THEN << FALSE, acc, i >>
    ELSE IF s[i] = DQ THEN << TRUE, acc, i + 1 >>
    ELSE IF s[i] = BSL
         THEN IF i + 1 <= Len(s) /\ EscapeOf(s[i + 1]) # << >>
              THEN ScanDouble(s, i + 2, acc \o EscapeOf(s[i + 1]))
              ELSE << FALSE, acc, i >>
    ELSE ScanDouble(s, i + 1, Append(acc, s[i]))

\* a plain scalar holds a nested "key: value" (an error inside a block mapping value)
HasMapIndicator(s) ==
    \E i \in 1..Len(s) : s[i] = COLON /\ (i = Len(s) \/ IsWs(s[i + 1]))

\* core schema resolution of a plain scalar
ResolvePlain(s) ==
    IF s = << >> THEN VNull
    ELSE IF s \in BoolTrue THEN VBool(S_true)
    ELSE IF s \in BoolFalse THEN VBool(S_false)
    ELSE IF AllDigits(s) THEN VNum(s)
    ELSE VStr(s)

\* a quoted scalar scanned to r = <<closed, text, next index>>
QuotedScalar(vt, r) == IF r[1] /\ OnlyCommentAfter(vt, r[3]) THEN VStr(r[2]) ELSE VErr

\* a plain scalar with the text body
PlainScalar(body) == IF HasMapIndicator(body) THEN VErr ELSE ResolvePlain(body)

\* the items of the body of a flow sequence, split at the commas
RECURSIVE SplitItems(_, _, _)
SplitItems(s, i, start) ==
    IF i > Len(s) THEN << Trim(Slice(s, start, Len(s))) >>
    ELSE IF s[i] = "," THEN << Trim(Slice(s, start, i - 1)) >> \o SplitItems(s, i + 1, i + 1)
    ELSE SplitItems(s, i + 1, start)

\* an item of a flow sequence that is a plain scalar of one word
IsPlainItem(t) ==
    /\ t # << >>
    /\ \A i \in 1..Len(t) : t[i] \notin (PlainForbiddenStart \cup {COLON, SP})

FlowItems(items) ==
    IF \E n \in 1..Len(items) : ~IsPlainItem(items[n]) THEN VErr
    ELSE VSeq(ArrayOf([n \in 1..Len(items) |-> ResolvePlain(items[n])]))

\* the flow sequence "[ item, item ]" whose closing bracket is at c (0: none);
\* the subset of the model has plain one-word items only
FlowSeqTo(vt, c) ==
    IF c = 0 \/ ~OnlyCommentAfter(vt, c + 1) THEN VErr
    ELSE IF Trim(Slice(vt, 2, c - 1)) = << >> THEN VSeq(<< >>)
    ELSE FlowItems(SplitItems(Slice(vt, 2, c - 1), 1, 1))

FirstIndexOf(s, c) ==
    IF \E i \in 1..Len(s) : s[i] = c
    THEN CHOOSE i \in 1..Len(s) : s[i] = c /\ \A j \in 1..(i - 1) : s[j] # c
    ELSE 0

FlowSeq(vt) == FlowSeqTo(vt, FirstIndexOf(vt, "]"))

\* the scalar or flow sequence written in the value text vt (already trimmed)
ParseScalar(vt) ==
    IF vt = << >> THEN VNull
    ELSE IF vt[1] = SQ THEN QuotedScalar(vt, ScanSingle(vt, 2, << >>))
    ELSE IF vt[1] = DQ THEN QuotedScalar(vt, ScanDouble(vt, 2, << >>))
    ELSE IF vt[1] = HASH THEN VNull
    ELSE IF vt[1] = "[" THEN FlowSeq(vt)
    ELSE IF vt[1] \in PlainForbiddenStart THEN VErr
    ELSE PlainScalar(Trim(Slice(vt, 1, CommentStart(vt, 1) - 1)))

\* least and greatest element of a non-empty finite set of integers
Min(S) == CHOOSE x \in S : \A y \in S : x <= y
Max(S) == CHOOSE x \in S : \A y \in S : y <= x

\* ascending sequence of a finite set of integers
SortedSeq(S) ==
    ArrayOf([n \in 1..Cardinality(S) |-> CHOOSE x \in S : Cardinality({y \in S : y < x}) = n - 1])

\* a line without its trailing carriage return (CRLF is a line break for the parser)
StripCR(l) == IF l # << >> /\ l[Len(l)] = CR THEN Slice(l, 1, Len(l) - 1) ELSE l

RECURSIVE SpaceRun(_, _)
SpaceRun(s, i) == IF i <= Len(s) /\ s[i] = SP THEN 1 + SpaceRun(s, i + 1) ELSE 0

\* position of the mapping indicator of a line: the first ':' followed by
\* whitespace or the end of the line; 0 if there is none
MapIndicators(l) == {i \in 1..Len(l) : l[i] = COLON /\ (i = Len(l) \/ IsWs(l[i + 1]))}

KeyColon(l) == IF MapIndicators(l) = {} THEN 0 ELSE Min(MapIndicators(l))

\* a key written 'k' or "k" denotes k
Unquote(k) ==
    IF Len(k) >= 2 /\ k[1] \in {SQ, DQ} /\ k[Len(k)] = k[1]
    THEN Slice(k, 2, Len(k) - 1) ELSE k

\* a line that is empty, blank or a comment (t is the trimmed line)
IsBlankText(t) == t = << >> \/ t[1] = HASH

\* the non-blank line l with indentation n and mapping indicator at c
EntryOf(l, n, c) ==
    IF c <= n + 1 \/ l[n + 1] = DASH \/ l[n + 1] = "\t"
    THEN [kind |-> "other", ind |-> n, key |-> << >>, vt |-> << >>]
    ELSE [kind |-> "entry", ind |-> n,
          key |-> Unquote(Trim(Slice(l, n + 1, c - 1))),
          vt |-> Trim(Slice(l, c + 1, Len(l)))]

EntryOfLine(l) ==
    IF IsBlankText(Trim(l))
    THEN [kind |-> "blank", ind |-> 0, key |-> << >>, vt |-> << >>]
    ELSE EntryOf(l, SpaceRun(l, 1), KeyColon(l))

\* one source line as seen by the parser: kind "blank", "entry" or "other"
LineEntry(line) == EntryOfLine(StripCR(line))

\* the entries lo..hi of E form one block mapping: the entries at the
\* indentation of the first one are its keys, the entries between two of them
\* are the nested block of the earlier one
RECURSIVE ParseBlock(_, _, _)

\* the entries of lo..hi at the indentation of entry lo
Siblings(E, lo, hi) == {i \in lo..hi : E[i].ind = E[lo].ind}

\* index of the sibling that follows entry i, or hi + 1
NextSib(later, hi) == IF later = {} THEN hi + 1 ELSE Min(later)

\* value of entry i whose next sibling is nxt and whose own value text reads sc
ValOf(E, i, nxt, sc) ==
    IF nxt > i + 1
    THEN IF sc.t # "null" THEN VErr ELSE ParseBlock(E, i + 1, nxt - 1)
    ELSE sc

BlockEntries(E, sibs, order, hi) ==
    ArrayOf([n \in 1..Len(order) |->
        [k |-> E[order[n]].key,
         val |-> ValOf(E, order[n], NextSib({j \in sibs : j > order[n]}, hi),
                       ParseScalar(E[order[n]].vt))]])

BlockOf(E, lo, hi, es) ==
    IF \E i \in lo..hi : E[i].ind < E[lo].ind THEN VErr
    ELSE IF \E n \in 1..Len(es) : es[n].val.t = "err" THEN VErr
    ELSE IF \E n, m \in 1..Len(es) : n # m /\ es[n].k = es[m].k THEN VErr
    ELSE VMap(es)

BlockOfSiblings(E, lo, hi, sibs) == BlockOf(E, lo, hi, BlockEntries(E, sibs, SortedSeq(sibs), hi))

ParseBlock(E, lo, hi) == BlockOfSiblings(E, lo, hi, Siblings(E, lo, hi))

\* yaml.parse(docContent)
LineEntries(ls) == [i \in 1..Len(ls) |-> LineEntry(ls[i])]

ParseEntries(E) ==
    IF E = << >> THEN VNull
    ELSE IF \E i \in 1..Len(E) : E[i].kind = "other" THEN VErr
    ELSE ParseBlock(E, 1, Len(E))

YamlParse(doc) ==
    ParseEntries(SelectSeq(LineEntries(SplitNL(doc)), LAMBDA e : e.kind # "blank"))

(***************************************************************************)
(* extractKeyPaths                                                         *)
(***************************************************************************)
\* new RegExp(`^\\s*${key}\\s*:`, 'g'): the key is pasted unescaped, so '+' is
\* a quantifier and '.' a wildcard.  The pattern is a syntax error ("nothing
\* to repeat") if a '+' follows the \s* or another '+'.
KeyRegexValid(key) ==
    /\ key # << >> => key[1] # PLUS
    /\ \A i \in 1..(Len(key) - 1) : ~(key[i] = PLUS /\ key[i + 1] = PLUS)

AtomMatches(a, c) == IF a = "." THEN ~IsLineTerm(c) ELSE a = c

\* one step over characters matching atom a from the positions P
StepAtom(a, line, P) == {p + 1 : p \in {q \in P : q <= Len(line) /\ AtomMatches(a, line[q])}}

RECURSIVE PlusAtom(_, _, _)
PlusAtom(a, line, P) ==
    LET Q == StepAtom(a, line, P)
    IN  IF Q = {} THEN {} ELSE Q \cup PlusAtom(a, line, Q)

\* positions reachable after matching key[i..] from the positions P
RECURSIVE KeyEnds(_, _, _, _)
KeyEnds(key, i, line, P) ==
    IF i > Len(key) THEN P
    ELSE IF i < Len(key) /\ key[i + 1] = PLUS
         THEN KeyEnds(key, i + 2, line, PlusAtom(key[i], line, P))
         ELSE KeyEnds(key, i + 1, line, StepAtom(key[i], line, P))

\* positions after an optional whitespace run starting at any position of P
WsClosure(line, P) == UNION {{p + k : k \in 0..WsRun(line, p)} : p \in P}

\* regex.exec(line) finds a match; it always starts at index 0 ('^')
KeyRegexMatch(key, line) ==
    \E p \in WsClosure(line, KeyEnds(key, 1, line, WsClosure(line, {1}))) :
        p <= Len(line) /\ line[p] = COLON

\* the for loop over lines: 1-based index of the first matching line, or -1
FirstOrNone(M) == IF M = {} THEN -1 ELSE Min(M)

FindKeyLine(key, lines) ==
    FirstOrNone({i \in 1..Len(lines) : KeyRegexMatch(key, lines[i])})

\* match.index + 1 of that line (the match starts at the '^' anchor), or -1
FindKeyColumn(key, lines) == IF FindKeyLine(key, lines) = -1 THEN -1 ELSE 1

DOT == "."

RECURSIVE extractKeyPaths(_, _, _)

\* const currentPath = prefix ? `${prefix}.${key}` : key
CurrentPath(prefix, key) == IF prefix # << >> THEN prefix \o << DOT >> \o key ELSE key

\* one iteration of the for...in loop: the record of the key, then the
\* records of its value
KeyPathsOfEntry(key, value, currentPath, lines) ==
    << [path |-> currentPath,
        line |-> FindKeyLine(key, lines),
        column |-> FindKeyColumn(key, lines),
        value |-> value,
        key |-> key] >>
    \o extractKeyPaths(value, currentPath, lines)

\* Object.keys(obj) with the values: the entries of a mapping, and for an
\* array (typeof [] is 'object') its indices "0", "1", ... as keys
IndexKey(n) == << << "0", "1", "2", "3", "4", "5", "6", "7", "8", "9" >>[n + 1] >>

ObjectEntries(obj) ==
    IF obj.t = "map" THEN obj.v
    ELSE ArrayOf([n \in 1..Len(obj.v) |-> [k |-> IndexKey(n - 1), val |-> obj.v[n]]])

KeyPathsOfEntries(es, prefix, lines) ==
    Flatten(ArrayOf([n \in 1..Len(es) |->
        KeyPathsOfEntry(es[n].k, es[n].val, CurrentPath(prefix, es[n].k), lines)]))

\* if (typeof obj !== 'object' || obj === null) return paths
extractKeyPaths(obj, prefix, lines) ==
    IF obj.t \notin {"map", "seq"} THEN << >>
    ELSE KeyPathsOfEntries(ObjectEntries(obj), prefix, lines)

\* extractKeyPaths throws a SyntaxError when it builds the pattern of some key
RECURSIVE ExtractThrows(_)
ExtractThrows(obj) ==
    \/ /\ obj.t = "map"
       /\ \E n \in 1..Len(obj.v) :
             ~KeyRegexValid(obj.v[n].k) \/ ExtractThrows(obj.v[n].val)
    \/ /\ obj.t = "seq"
       /\ \E n \in 1..Len(obj.v) : ExtractThrows(obj.v[n])

(***************************************************************************)
(* searchKeyInFile                                                         *)
(***************************************************************************)
\* the records of one document segment (none if the parse or the extraction throws)
KeyPathsOfParsed(parsed, lines) ==
    IF parsed.t \notin {"map", "seq"} \/ ExtractThrows(parsed) THEN << >>
    ELSE extractKeyPaths(parsed, << >>, lines)

KeyPathsOfContent(docContent) == KeyPathsOfParsed(YamlParse(docContent), SplitNL(docContent))

DocKeyPaths(docRaw) == KeyPathsOfContent(Trim(docRaw))

\* variant: every match that contains the query is classified exact
ToMatchAllExact(filePath, keyPath, documentStartLine, key) ==
    [file |-> filePath,
     path |-> keyPath.path,
     line |-> keyPath.line + documentStartLine,
     column |-> keyPath.column,
     value |-> keyPath.value,
     key |-> keyPath.key,
     isExactMatch |-> Includes(keyPath.path, key)]

ToMatch(filePath, keyPath, documentStartLine, key) ==
    [file |-> filePath,
     path |-> keyPath.path,
     line |-> keyPath.line + documentStartLine,
     column |-> keyPath.column,
     value |-> keyPath.value,
     key |-> keyPath.key,
     isExactMatch |-> keyPath.path = key]

\* if (keyPath.path === key || keyPath.path.includes(key))
Hits(keyPaths, key) == SelectSeq(keyPaths, LAMBDA kp : kp.path = key \/ Includes(kp.path, key))

ToMatches(filePath, hits, documentStartLine, key) ==
    [n \in 1..Len(hits) |-> ToMatch(filePath, hits[n], documentStartLine, key)]

\* variant: a segment whose parse or extraction throws leaves the start line
\* of the next segment where it was
RECURSIVE SearchDocsNoAdvance(_, _, _, _, _)
SearchDocsNoAdvance(filePath, documents, docIndex, documentStartLine, key) ==
    IF docIndex > Len(documents) THEN << >>
    ELSE IF Trim(documents[docIndex]) = << >>
    THEN SearchDocsNoAdvance(filePath, documents, docIndex + 1,
                    documentStartLine + Len(SplitNL(documents[docIndex])), key)
    ELSE IF YamlParse(Trim(documents[docIndex])).t = "err"
            \/ ExtractThrows(YamlParse(Trim(documents[docIndex])))
    THEN SearchDocsNoAdvance(filePath, documents, docIndex + 1, documentStartLine, key)
    ELSE ToMatches(filePath, Hits(DocKeyPaths(documents[docIndex]), key), documentStartLine, key)
         \o SearchDocsNoAdvance(filePath, documents, docIndex + 1,
                       documentStartLine + Len(SplitNL(documents[docIndex])) + 1, key)

RECURSIVE SearchDocs(_, _, _, _, _)
SearchDocs(filePath, documents, docIndex, documentStartLine, key) ==
    IF docIndex > Len(documents) THEN << >>
    ELSE IF Trim(documents[docIndex]) = << >>
    THEN SearchDocs(filePath, documents, docIndex + 1,
                    documentStartLine + Len(SplitNL(documents[docIndex])), key)
    ELSE ToMatches(filePath, Hits(DocKeyPaths(documents[docIndex]), key), documentStartLine, key)
         \o SearchDocs(filePath, documents, docIndex + 1,
                       documentStartLine + Len(SplitNL(documents[docIndex])) + 1, key)

searchKeyInFile(filePath, content, key) ==
    SearchDocs(filePath, SplitDocs(content), 1, 0, key)

(***************************************************************************)
(* Array.prototype.sort with a consistent comparator: the stable order.    *)
(* Less(a, b) iff the comparator returns a negative number for (a, b).     *)
(***************************************************************************)
StableSort(s, Less(_, _)) ==
    LET rank == ArrayOf([i \in 1..Len(s) |->
                    1 + Cardinality({j \in 1..Len(s) :
                            Less(s[j], s[i]) \/ (~Less(s[i], s[j]) /\ j < i)})])
    IN  ArrayOf([n \in 1..Len(s) |-> s[CHOOSE i \in 1..Len(s) : rank[i] = n]])

(***************************************************************************)
(* replaceInFile: the three key patterns                                   *)
(***************************************************************************)
NoMatch == [ok |-> FALSE, g1 |-> << >>, g2 |-> << >>]

HasLineTerm(s) == \E i \in 1..Len(s) : IsLineTerm(s[i])

\* the tail "\s*(.*)$" after a colon at c: the remainder behind the whitespace
\* run is group 2; '.' matches no line terminator and '$' only the end of input
TailGroup(line, c) == Slice(line, c + 1 + WsRun(line, c + 1), Len(line))
TailOk(line, c) == ~HasLineTerm(TailGroup(line, c))

\* the match whose first group ends with the colon at c
Matched(line, c) == [ok |-> TRUE, g1 |-> Slice(line, 1, c), g2 |-> TailGroup(line, c)]

\* the match if the key part was read up to a colon at c (0: it was not)
MatchAt(line, c) == IF c > 0 /\ TailOk(line, c) THEN Matched(line, c) ELSE NoMatch

\* the first match of a sequence of attempts
FirstOk(ms) ==
    IF \E n \in 1..Len(ms) : ms[n].ok
    THEN ms[Min({n \in 1..Len(ms) : ms[n].ok})]
    ELSE NoMatch

\* key occurs literally at position i of line
KeyAt(line, i, key) == i >= 1 /\ i + Len(key) - 1 <= Len(line) /\ Slice(line, i, i + Len(key) - 1) = key

\* position of the colon if "<quote?> key <quote?> \s* :" is read from position
\* p with q1/q2 quote characters taken, 0 if it cannot be read
ColonIfKey(line, p, key, q1, q2, ke, c) ==
    IF /\ (q1 = 1 => (p <= Len(line) /\ line[p] \in {SQ, DQ}))
       /\ KeyAt(line, p + q1, key)
       /\ (q2 = 1 => (ke <= Len(line) /\ line[ke] \in {SQ, DQ}))
       /\ c <= Len(line) /\ line[c] = COLON
    THEN c ELSE 0

ColonAfterKey(line, p, key, q1, q2) ==
    ColonIfKey(line, p, key, q1, q2, p + q1 + Len(key),
               p + q1 + Len(key) + q2 + WsRun(line, p + q1 + Len(key) + q2))

\* new RegExp(`^(\\s*${escapedKey}\\s*:)\\s*(.*)$`)
Pattern1(line, key) == MatchAt(line, ColonAfterKey(line, 1 + WsRun(line, 1), key, 0, 0))

\* new RegExp(`^(\\s*['"']?${escapedKey}['"']?\\s*:)\\s*(.*)$`)
\* Each ['"]? is greedy: the quote is taken if it is there, and given up
\* only if the rest of the pattern cannot match with it.
QuoteTries == << << 1, 1 >>, << 1, 0 >>, << 0, 1 >>, << 0, 0 >> >>

Pattern2(line, key) ==
    FirstOk([n \in 1..Len(QuoteTries) |->
        MatchAt(line, ColonAfterKey(line, 1 + WsRun(line, 1), key,
                                    QuoteTries[n][1], QuoteTries[n][2]))])

\* new RegExp(`^(\\s*.*${escapedKey}.*\\s*:)\\s*(.*)$`): the key anywhere
\* before a colon.  Both '.*' are greedy: the last usable occurrence of the
\* key, then the last usable colon behind it.
P3KeyOk(line, i, key) ==
    /\ KeyAt(line, i, key)
    /\ \A t \in 1..(i - 1) : IsLineTerm(line[t]) => t <= WsRun(line, 1)

P3ColonOk(line, i, key, c) ==
    /\ c >= i + Len(key) /\ c <= Len(line) /\ line[c] = COLON
    /\ \A t \in (i + Len(key))..(c - 1) : IsLineTerm(line[t]) => t >= c - WsRunBack(line, c - 1)
    /\ TailOk(line, c)

\* the colons usable behind the occurrence of the key at i
P3Colons(line, i, key) == {c \in 1..Len(line) : P3ColonOk(line, i, key, c)}

\* the occurrences of the key behind which a colon is usable
P3Keys(line, key) == {i \in 1..Len(line) : P3KeyOk(line, i, key) /\ P3Colons(line, i, key) # {}}

P3Match(line, key, I) ==
    IF I = {} THEN NoMatch ELSE Matched(line, Max(P3Colons(line, Max(I), key)))

Pattern3(line, key) == P3Match(line, key, P3Keys(line, key))

\* the for loop over patterns: the first pattern that matches wins
MatchLine(line, key) ==
    FirstOk(<< Pattern1(line, key), Pattern2(line, key), Pattern3(line, key) >>)

(***************************************************************************)
(* replaceInFile: format inference and line rewrite                        *)
(***************************************************************************)
S_yes == << "y", "e", "s" >>
S_1 == << "1" >>

\* variant: the value is wrapped in single quotes as it is
QuoteSingleRaw(v) == << SQ >> \o v \o << SQ >>

QuoteSingle(v) == << SQ >> \o ReplaceChar(v, SQ, << SQ, SQ >>) \o << SQ >>
QuoteDouble(v) == << DQ >> \o ReplaceChar(v, DQ, << BSL, DQ >>) \o << DQ >>

NeedsQuotes(v) == \E i \in 1..Len(v) : v[i] \in {SP, COLON, HASH, NL}

\* variant: the truthy tokens compared without lowering the case
BoolCoerceCaseSensitive(v) == IF v \in {S_true, S_yes, S_1} THEN S_true ELSE S_false

BoolCoerce(v) == IF ToLowerCase(v) \in {S_true, S_yes, S_1} THEN S_true ELSE S_false

FormatNewValue(originalValue, newValue) ==
    IF StartsWith(originalValue, << SQ >>) /\ EndsWith(originalValue, << SQ >>)
    THEN QuoteSingle(newValue)
    ELSE IF StartsWith(originalValue, << DQ >>) /\ EndsWith(originalValue, << DQ >>)
    THEN QuoteDouble(newValue)
    ELSE IF originalValue = S_true \/ originalValue = S_false
    THEN BoolCoerce(newValue)
    ELSE IF IsNumeric(originalValue) /\ IsNumeric(newValue)
    THEN newValue
    ELSE IF NeedsQuotes(newValue) THEN QuoteSingle(newValue)
    ELSE newValue

\* String.prototype.replace with a replacement string: $$, $&, $1, $2 (also
\* written $01, $02) are substitution patterns; the pattern has two groups and
\* matches the whole line, so $' (the text behind the match) is empty.
RECURSIVE Expand(_, _, _, _, _)
Expand(t, i, g1, g2, whole) ==
    IF i > Len(t) THEN << >>
    ELSE IF t[i] = DOLLAR /\ i < Len(t)
    THEN IF t[i + 1] = DOLLAR THEN << DOLLAR >> \o Expand(t, i + 2, g1, g2, whole)
         ELSE IF t[i + 1] = "&" THEN whole \o Expand(t, i + 2, g1, g2, whole)
         ELSE IF t[i + 1] = SQ THEN Expand(t, i + 2, g1, g2, whole)
         ELSE IF t[i + 1] = "1" THEN g1 \o Expand(t, i + 2, g1, g2, whole)
         ELSE IF t[i + 1] = "2" THEN g2 \o Expand(t, i + 2, g1, g2, whole)
         ELSE IF t[i + 1] = "0" /\ i + 1 < Len(t) /\ t[i + 2] = "1"
              THEN g1 \o Expand(t, i + 3, g1, g2, whole)
         ELSE IF t[i + 1] = "0" /\ i + 1 < Len(t) /\ t[i + 2] = "2"
              THEN g2 \o Expand(t, i + 3, g1, g2, whole)
         ELSE << DOLLAR >> \o Expand(t, i + 1, g1, g2, whole)
    ELSE << t[i] >> \o Expand(t, i + 1, g1, g2, whole)

\* line.replace(matchedPattern, `$1 ${formattedNewValue}`)
RewriteLine(line, m, newValue) ==
    Expand(<< DOLLAR, "1", SP >> \o FormatNewValue(Trim(m.g2), newValue), 1, m.g1, m.g2, line)

(***************************************************************************)
(* replaceInFile: the batch                                                *)
(***************************************************************************)
\* results.sort((a, b) => b.line - a.line)
SortByLineDesc(results) == StableSort(results, LAMBDA a, b : b.line - a.line < 0)

\* The loop state st is [lines, changes]: the lines array and changesMade.
\* the body of the if (matched) statement on line number n
RewriteIfMatched(st, n, m, newValue) ==
    IF m.ok
    THEN [lines |-> [st.lines EXCEPT ![n] = RewriteLine(st.lines[n], m, newValue)],
          changes |-> st.changes + 1]
    ELSE st

\* one iteration of the for loop over the sorted results
ReplaceOne(st, result, newValue) ==
    IF result.line - 1 < 0 \/ result.line - 1 >= Len(st.lines) THEN st
    ELSE IF result.key = << >> THEN st
    ELSE RewriteIfMatched(st, result.line, MatchLine(st.lines[result.line], result.key), newValue)

\* variant: the batch stops at the first entry that cannot be rewritten
RECURSIVE ReplaceLoopAbort(_, _, _, _)
ReplaceLoopAbort(st, sorted, i, newValue) ==
    IF i > Len(sorted) THEN st
    ELSE IF ReplaceOne(st, sorted[i], newValue).changes = st.changes THEN st
    ELSE ReplaceLoopAbort(ReplaceOne(st, sorted[i], newValue), sorted, i + 1, newValue)

RECURSIVE ReplaceLoop(_, _, _, _)
ReplaceLoop(st, sorted, i, newValue) ==
    IF i > Len(sorted) THEN st
    ELSE ReplaceLoop(ReplaceOne(st, sorted[i], newValue), sorted, i + 1, newValue)

\* variant: the file is written after every rewritten line
OutcomeWritePerChange(content, sorted, run) ==
    [content |-> IF run.changes > 0 THEN JoinNL(run.lines) ELSE content,
     changes |-> run.changes,
     order |-> [n \in 1..Len(sorted) |-> sorted[n].line],
     writes |-> run.changes,
     threw |-> FALSE]

\* what replaceInFile leaves behind: the content of the file, the returned
\* number of changes, the line numbers in processing order, the number of
\* writes (the file is written only if changesMade > 0) and whether it threw
Outcome(content, sorted, run) ==
    [content |-> IF run.changes > 0 THEN JoinNL(run.lines) ELSE content,
     changes |-> run.changes,
     order |-> [n \in 1..Len(sorted) |-> sorted[n].line],
     writes |-> IF run.changes > 0 THEN 1 ELSE 0,
     threw |-> FALSE]

ReplaceSorted(content, sorted, newValue) ==
    Outcome(content, sorted,
            ReplaceLoop([lines |-> SplitNL(content), changes |-> 0], sorted, 1, newValue))

\* replaceInFile(filePath, results, newValue) on the content read from the file
replaceInFile(content, results, newValue) ==
    ReplaceSorted(content, SortByLineDesc(results), newValue)

\* fs.readFileSync throws: nothing is processed, the catch block rethrows
ReadFailure(content) ==
    [content |-> content, changes |-> 0, order |-> << >>, writes |-> 0, threw |-> TRUE]

\* fs.writeFileSync throws on opening the file: the content on disk stays,
\* no change count is returned, the catch block rethrows
WriteFailure(content, out) ==
    IF out.writes = 0 THEN out
    ELSE [content |-> content, changes |-> 0, order |-> out.order, writes |-> 1, threw |-> TRUE]

\* replaceInFile on a file with access mode p: "ok", "unreadable" or "readonly"
ReplaceInFileAs(p, content, results, newValue) ==
    IF p = "unreadable" THEN ReadFailure(content)
    ELSE IF p = "readonly" THEN WriteFailure(content, replaceInFile(content, results, newValue))
    ELSE replaceInFile(content, results, newValue)

(***************************************************************************)
(* Inputs of the model                                                     *)
(***************************************************************************)
\* total number of lines of the files of the workspace
MaxLines == 3

L_ab == << "a", "b", ":" >>
L_b_sq == << " ", " ", "b", ":", " ", "'", "x", "'" >>
L_b_c == << "b", ":", " ", " ", "x", " ", "#", "c" >>
L_plus == << "+", "b", ":", " ", "1" >>
L_qb == << "'", "b", "'", ":", " ", "1" >>
L_sep == << "-", "-", "-" >>
L_empty == << >>
L_cmt == << "#", "c" >>

\* the lines files are made of: a parent key, a nested single-quoted value, a
\* plain value with a comment, a key with a regex metacharacter, a quoted
\* key, a document separator and the empty line (also the trailing newline)
LinePool == {L_ab, L_b_sq, L_b_c, L_plus, L_qb, L_sep, L_empty}

FileNames == {"a.yml", "b.yml"}

\* a.file.localeCompare(b.file) < 0
FileRank(f) == IF f = "a.yml" THEN 1 ELSE 2
FileBefore(f, g) == FileRank(f) < FileRank(g)

\* the orders in which findYamlFiles may list the files
FileOrders == {<< "a.yml", "b.yml" >>, << "b.yml", "a.yml" >>}

Q_b == << "b" >>
Q_ab_b == << "a", "b", ".", "b" >>
Queries == {Q_b, Q_ab_b}

V_x == << "x" >>
V_z == << "z" >>
NewValues == {V_x, V_z}

\* single-line files and replacement values for the value formatting rules
R_true == << "b", ":", " ", "t", "r", "u", "e" >>
R_false == << "b", ":", " ", " ", "f", "a", "l", "s", "e", " " >>
R_True == << "b", ":", " ", "T", "r", "u", "e" >>
R_sq == << "b", ":", " ", "'", "x", "'" >>
R_dq == << "b", ":", " ", "\"", "x", "\"" >>
R_sqtrue == << "b", ":", " ", "'", "t", "r", "u", "e", "'" >>
R_num == << "b", ":", " ", "1", "0" >>
R_plain == << "b", ":", " ", "x" >>
R_null == << "b", ":" >>
R_cmt == << "b", ":", " ", "t", "r", "u", "e", " ", "#", "c" >>
R_seq == << "b", ":", " ", "[", "x", "]" >>
RichLines == {R_true, R_false, R_True, R_sq, R_dq, R_sqtrue, R_num, R_plain, R_null, R_cmt, R_seq}

V_no == << "n", "o" >>
V_YES == << "Y", "E", "S" >>
V_True == << "T", "r", "u", "e" >>
V_0 == << "0" >>
V_sp == << "a", " ", "b" >>
V_amp == << "$", "&" >>
V_sq == << "i", "t", "'", "s" >>
V_dq == << "a", "\"", "b" >>
V_empty == << >>
V_1sp == << "1", " " >>
RichValues == {V_x, V_z, V_no, V_YES, V_True, S_true, S_false, S_yes, S_1, V_0, V_sp, V_amp, V_sq, V_dq, V_empty, V_1sp}

VARIABLES
    fs,            \* file name -> content on disk
    pc,            \* "idle", "quickpick" (search results shown), "panel" (replace dialog open), "done"
    searchKey,     \* the query of the last search
    allResults,    \* the sorted result list of the last search
    newValue,      \* the replacement value of the last replace operation
    totalChanges,  \* performBatchReplace: sum of the returned change counts
    fs0,           \* history: the files as they were when the search ran
    batch,         \* history: the results handed to performBatchReplace
    processed,     \* history: file name -> line numbers in the order replaceInFile processed them
    writes,        \* history: file name -> number of writeFileSync calls
    perm,          \* file name -> "ok", "unreadable" or "readonly"
    errors,        \* performBatchReplace: the files whose replaceInFile threw, in order
    workspaceFiles, \* the paths of the files of the workspace folder
    validFiles,    \* findYamlFiles: whether it has run, and the paths it resolved
    scan,          \* the search running under withProgress, step by step
    panels,        \* the replace panels and their batches, step by step
    review         \* performReviewReplace, step by step

vars == << fs, pc, searchKey, allResults, newValue, totalChanges, fs0, batch, processed, writes,
           perm, errors, workspaceFiles, validFiles, scan, panels, review >>

(***************************************************************************)
(* findYamlFiles                                                           *)
(***************************************************************************)
SLASH == "/"
YML == << ".", "y", "m", "l" >>
YAML == << ".", "y", "a", "m", "l" >>

\* config.get('includePatterns', ['**/*.yml', '**/*.yaml']): a pattern **/*E
\* is written as its extension E
includePatterns == << YML, YAML >>

\* config.get('excludePatterns', [...]): a pattern **/D/** is written as its
\* directory name D
excludePatterns ==
    {<< "n", "o", "d", "e", "_", "m", "o", "d", "u", "l", "e", "s" >>,
     << ".", "g", "i", "t" >>,
     << "t", "a", "r", "g", "e", "t" >>,
     << "b", "u", "i", "l", "d" >>,
     << "d", "i", "s", "t" >>,
     << "o", "u", "t" >>,
     << ".", "v", "s", "c", "o", "d", "e" >>}

\* const pattern = patterns[0] || ...: only the first include pattern is used
GlobPattern == includePatterns[1]

\* glob(pattern, {ignore}): the paths (relative to the workspace folder) whose
\* base name ends with the extension of the pattern and that have no
\* excluded directory above them
GlobMatches(pattern, file) == EndsWith(file, pattern) /\ Len(file) > Len(pattern)

Ignored(file) ==
    \E d \in excludePatterns :
        Includes(<< SLASH >> \o file, << SLASH >> \o d \o << SLASH >>)

\* the filter on the files glob found
IsValidFile(file) ==
    /\ ~Includes(file, << ".", "j", "a", "v", "a", ".", "g", "i", "t" >>)
    /\ ~Includes(file, << ".", "c", "l", "a", "s", "s", ".", "y", "a", "m", "l" >>)
    /\ ~Includes(file, << ".", "t", "m", "p", "." >>)
    /\ (EndsWith(file, YML) \/ EndsWith(file, YAML))

findYamlFiles(files) ==
    {file \in files : GlobMatches(GlobPattern, file) /\ ~Ignored(file) /\ IsValidFile(file)}

\* the paths of the two files of FileNames
P_a_yml == << "a" >> \o YML
P_b_yml == << "b" >> \o YML

(***************************************************************************)
(* searchYamlKey / findAndReplaceYamlKey                                   *)
(***************************************************************************)
\* searchKeyInFile on the file on disk: a failing read is caught and gives []
ReadAndSearch(files, f, key) ==
    IF perm[f] = "unreadable" THEN << >> ELSE searchKeyInFile(f, files[f], key)

RECURSIVE ConcatResults(_, _, _, _)
ConcatResults(files, yamlFiles, i, key) ==
    IF i > Len(yamlFiles) THEN << >>
    ELSE ReadAndSearch(files, yamlFiles[i], key)
         \o ConcatResults(files, yamlFiles, i + 1, key)

\* the comparator of allResults.sort: negative iff a is exact and b is not, or
\* they agree on exactness and a's file compares before b's
ResultBefore(a, b) ==
    \/ a.isExactMatch /\ ~b.isExactMatch
    \/ a.isExactMatch = b.isExactMatch /\ FileBefore(a.file, b.file)

\* variant: the result list is left in the order the files were searched
SortResultsUnsorted(rs) == rs

SortResults(rs) == StableSort(rs, ResultBefore)

SearchAll(files, yamlFiles, key) == SortResults(ConcatResults(files, yamlFiles, 1, key))

(***************************************************************************)
(* performBatchReplace                                                     *)
(***************************************************************************)
\* Object.keys(changesByFile): the files in order of first appearance
RECURSIVE FilesOf(_, _)
FilesOf(results, seen) ==
    IF results = << >> THEN << >>
    ELSE IF Head(results).file \in seen THEN FilesOf(Tail(results), seen)
    ELSE << Head(results).file >> \o FilesOf(Tail(results), seen \cup {Head(results).file})

ResultsOfFile(results, f) == SelectSeq(results, LAMBDA r : r.file = f)

\* the outcome of replaceInFile for file f of the plan
BatchRun(files, results, f, v) ==
    ReplaceInFileAs(perm[f], files[f], ResultsOfFile(results, f), v)

InPlan(results, f) == \E n \in 1..Len(results) : results[n].file = f

\* replaceInFile was not called for this file
NotRun(content) ==
    [content |-> content, changes |-> 0, order |-> << >>, writes |-> 0, threw |-> FALSE]

\* variant: the loop over the files stops at the first file that throws
RunFilesAbort(files, results, fl, v) ==
    ArrayOf([i \in 1..Len(fl) |->
        IF \E j \in 1..(i - 1) : BatchRun(files, results, fl[j], v).threw
        THEN NotRun(files[fl[i]])
        ELSE BatchRun(files, results, fl[i], v)])

\* the for loop over files: the outcomes of replaceInFile, file by file
RunFiles(files, results, fl, v) ==
    ArrayOf([i \in 1..Len(fl) |-> BatchRun(files, results, fl[i], v)])

\* position of file f in the list of the files of the plan
IndexOf(fl, f) == CHOOSE i \in 1..Len(fl) : fl[i] = f

\* totalChanges += changes, over the files of the plan
RECURSIVE SumChanges(_)
SumChanges(runs) ==
    IF runs = << >> THEN 0 ELSE Head(runs).changes + SumChanges(Tail(runs))

\* errors.push(...) in the catch block, file by file
ErrorsOf(fl, runs) == SelectSeq(fl, LAMBDA f : runs[IndexOf(fl, f)].threw)

\* the effect of the batch on the files fl, runs[i] being the outcome of
\* replaceInFile for fl[i]
ApplyBatch(results, v, fl, runs) ==
    /\ fs' = [f \in FileNames |->
                IF InPlan(results, f) THEN runs[IndexOf(fl, f)].content ELSE fs[f]]
    /\ totalChanges' = SumChanges(runs)
    /\ processed' = [f \in FileNames |->
                       IF InPlan(results, f) THEN runs[IndexOf(fl, f)].order ELSE << >>]
    /\ writes' = [f \in FileNames |->
                    IF InPlan(results, f) THEN runs[IndexOf(fl, f)].writes ELSE 0]
    /\ batch' = results
    /\ newValue' = v
    /\ errors' = ErrorsOf(fl, runs)

BatchOnFiles(results, v, fl) == ApplyBatch(results, v, fl, RunFiles(fs, results, fl, v))

PerformBatchReplace(results, v) == BatchOnFiles(results, v, FilesOf(results, {}))

(***************************************************************************)
(* The commands step by step: every await is a point where another         *)
(* callback may run                                                        *)
(***************************************************************************)
\* the number of replace panels that can be open
MaxPanels == 2
PanelIds == 1..MaxPanels

\* no search is running.  st: "idle", "glob" (awaiting findYamlFiles of folder
\* k) or "file" (awaiting searchKeyInFile of file i of folder k); cancelled:
\* token.isCancellationRequested; reads: the files read so far; cancelledAt:
\* Len(reads) when the cancellation was requested; out: how the search ended
ScanIdle ==
    [st |-> "idle", replace |-> FALSE, key |-> << >>, folders |-> << >>, k |-> 0, i |-> 0,
     results |-> << >>, cancelled |-> FALSE, reads |-> << >>, cancelledAt |-> 0, out |-> "none"]

\* st: "closed", "open", "running" (awaiting replaceInFile of file i of the
\* plan fl) or "finished"; snap: the files when the batch started
PanelClosed ==
    [st |-> "closed", results |-> << >>, v |-> << >>, fl |-> << >>, i |-> 0,
     snap |-> [f \in FileNames |-> << >>]]

\* no review is running.  st: "idle", "opening" (awaiting openTextDocument and
\* showTextDocument for result i), "prompt" (awaiting the answer to the
\* warning message for result i), "ended" or "failed" (the function threw);
\* total: totalChanges; reported: the total of the information message, -1 if
\* none was shown; history: log, the answers given, calls, the indices of the
\* results handed to replaceInFile, and rewritten, the indices of the
\* results whose line was rewritten
ReviewIdle ==
    [st |-> "idle", results |-> << >>, v |-> << >>, i |-> 0, total |-> 0, reported |-> -1,
     log |-> << >>, calls |-> << >>, rewritten |-> {}]

(***************************************************************************)
(* State machine                                                           *)
(***************************************************************************)
\* the state when the extension is activated, before any command
InitState ==
    /\ fs0 = fs
    /\ pc = "idle"
    /\ searchKey = << >>
    /\ allResults = << >>
    /\ newValue = << >>
    /\ totalChanges = 0
    /\ batch = << >>
    /\ processed = [f \in FileNames |-> << >>]
    /\ writes = [f \in FileNames |-> 0]
    /\ perm = [f \in FileNames |-> "ok"]
    /\ errors = << >>
    /\ workspaceFiles = {P_a_yml, P_b_yml}
    /\ validFiles = [done |-> FALSE, files |-> {}]
    /\ scan = ScanIdle
    /\ panels = [p \in PanelIds |-> PanelClosed]
    /\ review = ReviewIdle

LinesOf(n) == [1..n -> LinePool]

\* a workspace of two files with at most MaxLines lines in total
Init ==
    /\ \E n1 \in 0..MaxLines : \E n2 \in 0..(MaxLines - n1) :
         \E l1 \in LinesOf(n1), l2 \in LinesOf(n2) :
            fs = [f \in FileNames |-> IF f = "a.yml" THEN JoinNL(l1) ELSE JoinNL(l2)]
    /\ InitState

\* command yamlKeySearch.searchKey: results shown in a quick pick
SearchYamlKey ==
    /\ pc = "idle"
    /\ \E q \in Queries, yamlFiles \in FileOrders :
          /\ searchKey' = q
          /\ allResults' = SearchAll(fs, yamlFiles, q)
    /\ pc' = "quickpick"
    /\ UNCHANGED << review, fs, fs0, newValue, totalChanges, batch, processed, writes, perm, errors, workspaceFiles, validFiles, scan, panels >>

\* command yamlKeySearch.findAndReplace: results shown in the replace panel
FindAndReplaceYamlKey ==
    /\ pc = "idle"
    /\ \E q \in Queries, yamlFiles \in FileOrders :
          /\ searchKey' = q
          /\ allResults' = SearchAll(fs, yamlFiles, q)
          /\ pc' = IF allResults' = << >> THEN "idle" ELSE "panel"
    /\ UNCHANGED << review, fs, fs0, newValue, totalChanges, batch, processed, writes, perm, errors, workspaceFiles, validFiles, scan, panels >>

\* results.filter((_, index) => message.selectedIndices.includes(index))
PickIndices(results, idx) == ArrayOf([n \in 1..Len(idx) |-> results[idx[n]]])

FilterByIndex(results, sel) == PickIndices(results, SortedSeq(sel \cap (1..Len(results))))

\* panel message 'replaceAll'
ReplaceAll ==
    /\ pc = "panel"
    /\ \E v \in NewValues : PerformBatchReplace(allResults, v)
    /\ pc' = "done"
    /\ UNCHANGED << review, searchKey, allResults, fs0, perm, workspaceFiles, validFiles, scan, panels >>

\* panel message 'replaceSelected' with a non-empty set of checked rows
ReplaceSelected ==
    /\ pc = "panel"
    /\ \E sel \in (SUBSET (1..Len(allResults))) \ {{}} : \E v \in NewValues :
          PerformBatchReplace(FilterByIndex(allResults, sel), v)
    /\ pc' = "done"
    /\ UNCHANGED << review, searchKey, allResults, fs0, perm, workspaceFiles, validFiles, scan, panels >>

\* panel message 'cancel'
CancelPanel ==
    /\ pc = "panel"
    /\ pc' = "idle"
    /\ searchKey' = << >>
    /\ allResults' = << >>
    /\ UNCHANGED << review, fs, fs0, newValue, totalChanges, batch, processed, writes, perm, errors, workspaceFiles, validFiles, scan, panels >>

Next ==
    \/ SearchYamlKey
    \/ FindAndReplaceYamlKey
    \/ ReplaceAll
    \/ ReplaceSelected
    \/ CancelPanel

Spec == Init /\ [][Next]_vars

(***************************************************************************)
(* The same commands on single-line files with the larger set of values    *)
(***************************************************************************)
InitValues ==
    /\ \E l \in RichLines : fs = [f \in FileNames |-> IF f = "a.yml" THEN l ELSE << >>]
    /\ InitState

\* panel message 'replaceAll' with a value of the larger set
ReplaceAllValues ==
    /\ pc = "panel"
    /\ \E v \in RichValues : PerformBatchReplace(allResults, v)
    /\ pc' = "done"
    /\ UNCHANGED << review, searchKey, allResults, fs0, perm, workspaceFiles, validFiles, scan, panels >>

NextValues ==
    \/ FindAndReplaceYamlKey
    \/ ReplaceAllValues
    \/ CancelPanel

SpecValues == InitValues /\ [][NextValues]_vars

(***************************************************************************)
(* replaceInFile with any string as the new value                          *)
(***************************************************************************)
V_nl == << "a", NL, "b" >>
V_qq == << SQ, "q", SQ >>
AnyStrings == {V_x, V_z, V_nl, V_qq, V_amp}

F_nested == JoinNL(<< L_ab, L_b_sq >>)
F_cmt == JoinNL(<< R_plain, L_cmt >>)
StringFiles == {R_plain, R_sq, F_nested, F_cmt}

InitStrings ==
    /\ fs \in [FileNames -> StringFiles]
    /\ InitState

\* panel message 'replaceAll' whose newValue is any string
ReplaceAllStrings ==
    /\ pc = "panel"
    /\ \E v \in AnyStrings : PerformBatchReplace(allResults, v)
    /\ pc' = "done"
    /\ UNCHANGED << review, searchKey, allResults, fs0, perm, workspaceFiles, validFiles, scan, panels >>

NextStrings ==
    \/ FindAndReplaceYamlKey
    \/ ReplaceAllStrings
    \/ CancelPanel

SpecStrings == InitStrings /\ [][NextStrings]_vars

(***************************************************************************)
(* The same commands while the access modes of the files change            *)
(***************************************************************************)

\* a file with CRLF line terminators and a final newline
F_crlf == << "b", ":", " ", "x", CR, NL, "a", "b", ":", CR, NL >>

IOFiles == {R_plain, R_num, L_qb, F_nested, F_crlf}

AccessModes == {"ok", "unreadable", "readonly"}

InitIO ==
    /\ fs \in [FileNames -> IOFiles]
    /\ InitState

\* the environment changes the access mode of a file
Chmod ==
    /\ \E f \in FileNames : \E p \in AccessModes \ {perm[f]} : perm' = [perm EXCEPT ![f] = p]
    /\ UNCHANGED << review, fs, pc, searchKey, allResults, newValue, totalChanges, fs0, batch,
                    processed, writes, errors, workspaceFiles, validFiles, scan, panels >>

NextIO ==
    \/ FindAndReplaceYamlKey
    \/ ReplaceAll
    \/ ReplaceSelected
    \/ CancelPanel
    \/ Chmod

SpecIO == InitIO /\ [][NextIO]_vars

(***************************************************************************)
(* The same commands on files of several document segments                 *)
(***************************************************************************)
\* the number of document segments of a file
MaxDocs == 3

L_bad == << "b", ":", " ", "@" >>
D_bad2 == JoinNL(<< L_bad, L_ab >>)

L_dot == << "a", "b", ".", "b", ":", " ", "1" >>
D_dot == JoinNL(<< L_dot, L_ab, L_b_sq >>)

\* segments: a scalar entry, a nested entry, one and two lines that do not
\* parse, a key whose pattern is a syntax error, a comment, the empty
\* segment, a key with a dot next to a nested key
DocPool == {R_plain, F_nested, L_bad, D_bad2, L_plus, L_cmt, L_empty, D_dot}

RECURSIVE JoinDocs(_)
JoinDocs(ds) ==
    IF Len(ds) = 1 THEN ds[1]
    ELSE ds[1] \o << NL >> \o L_sep \o << NL >> \o JoinDocs(Tail(ds))

InitDocs ==
    /\ \E n \in 1..MaxDocs : \E ds \in [1..n -> DocPool] :
          fs = [f \in FileNames |-> IF f = "a.yml" THEN JoinDocs(ds) ELSE << >>]
    /\ InitState

NextDocs ==
    \/ SearchYamlKey
    \/ FindAndReplaceYamlKey
    \/ ReplaceAll
    \/ CancelPanel

SpecDocs == InitDocs /\ [][NextDocs]_vars

(***************************************************************************)
(* findYamlFiles on workspace folders with other files; the contents of    *)
(* the files are left out                                                  *)
(***************************************************************************)
P_c_yaml == << "c" >> \o YAML
P_d_c_yaml == << "d", SLASH, "c" >> \o YAML
P_nm_a_yml == << "n", "o", "d", "e", "_", "m", "o", "d", "u", "l", "e", "s", SLASH, "a" >> \o YML
P_build_c_yaml == << "d", SLASH, "b", "u", "i", "l", "d", SLASH, "c" >> \o YAML
P_a_txt == << "a", ".", "t", "x", "t" >>
P_ayml_txt == << "a" >> \o YML \o << ".", "t", "x", "t" >>
PathPool == {P_a_yml, P_b_yml, P_c_yaml, P_d_c_yaml, P_nm_a_yml, P_build_c_yaml, P_a_txt,
             P_ayml_txt}

InitFiles ==
    /\ workspaceFiles \in SUBSET PathPool
    /\ validFiles = [done |-> FALSE, files |-> {}]
    /\ fs = [f \in FileNames |-> << >>]
    /\ fs0 = fs
    /\ pc = "idle"
    /\ searchKey = << >>
    /\ allResults = << >>
    /\ newValue = << >>
    /\ totalChanges = 0
    /\ batch = << >>
    /\ processed = [f \in FileNames |-> << >>]
    /\ writes = [f \in FileNames |-> 0]
    /\ perm = [f \in FileNames |-> "ok"]
    /\ errors = << >>
    /\ scan = ScanIdle
    /\ panels = [p \in PanelIds |-> PanelClosed]
    /\ review = ReviewIdle

\* await findYamlFiles(folder.uri.fsPath)
FindYamlFiles ==
    /\ ~validFiles.done
    /\ validFiles' = [done |-> TRUE, files |-> findYamlFiles(workspaceFiles)]
    /\ UNCHANGED << review, fs, pc, searchKey, allResults, newValue, totalChanges, fs0, batch,
                    processed, writes, perm, errors, workspaceFiles, scan, panels >>

NextFiles == FindYamlFiles

SpecFiles == InitFiles /\ [][NextFiles]_vars

(***************************************************************************)
(* searchYamlKey, findAndReplaceYamlKey and performBatchReplace step by    *)
(* step, with the cancel button of the progress notification and two       *)
(* replace panels                                                          *)
(***************************************************************************)
\* workspaceFolders with the files findYamlFiles resolves for each of them
Layouts ==
    {<< << "b.yml" >>, << "a.yml" >> >>,
     << << "a.yml", "b.yml" >>, << >> >>}

AsyncFiles == {F_nested, R_plain}

InitAsync ==
    /\ \E c \in AsyncFiles : fs = [f \in FileNames |-> IF f = "a.yml" THEN c ELSE F_nested]
    /\ InitState

\* the command starts: withProgress calls the callback, which awaits
\* findYamlFiles of the first folder
StartSearch ==
    /\ scan.st = "idle"
    /\ \E q \in Queries, layout \in Layouts, replace \in BOOLEAN :
          /\ replace => \E p \in PanelIds : panels[p].st = "closed"
          /\ scan' = [ScanIdle EXCEPT !.st = "glob", !.replace = replace, !.key = q,
                                      !.folders = layout, !.k = 1]
    /\ UNCHANGED << review, fs, pc, searchKey, allResults, newValue, totalChanges, fs0, batch,
                    processed, writes, perm, errors, workspaceFiles, validFiles, panels >>

\* the user presses Cancel on the progress notification
CancelSearch ==
    /\ scan.st \in {"glob", "file"}
    /\ ~scan.cancelled
    /\ scan' = [scan EXCEPT !.cancelled = TRUE, !.cancelledAt = Len(scan.reads)]
    /\ UNCHANGED << review, fs, pc, searchKey, allResults, newValue, totalChanges, fs0, batch,
                    processed, writes, perm, errors, workspaceFiles, validFiles, panels >>

\* the index of the loop over yamlFiles when the awaited call resolves
NextIndex == IF scan.st = "glob" THEN 1 ELSE scan.i + 1

AtFile == scan.st \in {"glob", "file"} /\ NextIndex <= Len(scan.folders[scan.k])

FolderDone == scan.st \in {"glob", "file"} /\ NextIndex > Len(scan.folders[scan.k])

\* the callback of withProgress has returned: what is kept is how the search
\* ended, the state of its token and the list on display
Ended(out, shown) ==
    [ScanIdle EXCEPT !.out = out, !.cancelled = scan.cancelled, !.results = shown]

\* if (token.isCancellationRequested) { return; }
SearchCancelled ==
    /\ AtFile
    /\ scan.cancelled
    /\ scan' = Ended("cancelled", << >>)
    /\ UNCHANGED << review, fs, pc, searchKey, allResults, newValue, totalChanges, fs0, batch,
                    processed, writes, perm, errors, workspaceFiles, validFiles, panels >>

\* the token is not set: searchKeyInFile reads and searches the next file
SearchFile ==
    /\ AtFile
    /\ ~scan.cancelled
    /\ scan' = [scan EXCEPT !.st = "file", !.i = NextIndex,
                            !.reads = @ \o << scan.folders[scan.k][NextIndex] >>,
                            !.results = @ \o ReadAndSearch(fs, scan.folders[scan.k][NextIndex],
                                                           scan.key)]
    /\ UNCHANGED << review, fs, pc, searchKey, allResults, newValue, totalChanges, fs0, batch,
                    processed, writes, perm, errors, workspaceFiles, validFiles, panels >>

\* the loop over the files of a folder has ended: findYamlFiles of the next
NextFolder ==
    /\ FolderDone
    /\ scan.k < Len(scan.folders)
    /\ scan' = [scan EXCEPT !.st = "glob", !.k = @ + 1, !.i = 0]
    /\ UNCHANGED << review, fs, pc, searchKey, allResults, newValue, totalChanges, fs0, batch,
                    processed, writes, perm, errors, workspaceFiles, validFiles, panels >>

FirstClosed == CHOOSE p \in PanelIds : panels[p].st = "closed" /\ \A o \in 1..(p - 1) : panels[o].st # "closed"

\* showSearchResults(allResults, searchKey, isReplace) after the sort
Present(sorted) ==
    IF sorted = << >>
    THEN scan' = Ended("nomatch", << >>) /\ UNCHANGED panels
    ELSE IF scan.replace
    THEN /\ scan' = Ended("panel", << >>)
         /\ panels' = [panels EXCEPT ![FirstClosed] =
                           [PanelClosed EXCEPT !.st = "open", !.results = sorted]]
    ELSE scan' = Ended("list", sorted) /\ UNCHANGED panels

\* the loop over the folders has ended: the results are sorted and shown
ShowResults ==
    /\ FolderDone
    /\ scan.k = Len(scan.folders)
    /\ Present(SortResults(scan.results))
    /\ UNCHANGED << review, fs, pc, searchKey, allResults, newValue, totalChanges, fs0, batch,
                    processed, writes, perm, errors, workspaceFiles, validFiles >>

\* variant: replaceInFile works on the content read when the batch started
BatchSourceSnapshot(p) == panels[p].snap

\* the content replaceInFile reads: the file as it is on disk
BatchSource(p) == fs

\* await replaceInFile(filePath, fileResults, newValue) for file n of the plan
\* of panel pn: read, edits and write without an await in between
BatchFile(p, pn, n) ==
    fs' = [fs EXCEPT ![pn.fl[n]] = BatchRun(BatchSource(p), pn.results, pn.fl[n], pn.v).content]

\* panel message 'replaceAll': the panel is disposed, performBatchReplace
\* groups the results and runs the loop up to the first await
StartBatch ==
    /\ \E p \in PanelIds : \E v \in NewValues :
          /\ panels[p].st = "open"
          /\ panels' = [panels EXCEPT ![p] =
                           [panels[p] EXCEPT !.st = "running", !.v = v,
                                             !.fl = FilesOf(panels[p].results, {}),
                                             !.i = 1, !.snap = fs]]
          /\ BatchFile(p, panels'[p], 1)
    /\ UNCHANGED << review, pc, searchKey, allResults, newValue, totalChanges, fs0, batch,
                    processed, writes, perm, errors, workspaceFiles, validFiles, scan >>

\* replaceInFile has resolved and the plan has another file
ContinueBatch ==
    /\ \E p \in PanelIds :
          /\ panels[p].st = "running"
          /\ panels[p].i < Len(panels[p].fl)
          /\ panels' = [panels EXCEPT ![p].i = @ + 1]
          /\ BatchFile(p, panels[p], panels[p].i + 1)
    /\ UNCHANGED << review, pc, searchKey, allResults, newValue, totalChanges, fs0, batch,
                    processed, writes, perm, errors, workspaceFiles, validFiles, scan >>

\* replaceInFile has resolved for the last file: the summary is shown
FinishBatch ==
    /\ \E p \in PanelIds :
          /\ panels[p].st = "running"
          /\ panels[p].i = Len(panels[p].fl)
          /\ panels' = [panels EXCEPT ![p].st = "finished"]
    /\ UNCHANGED << review, fs, pc, searchKey, allResults, newValue, totalChanges, fs0, batch,
                    processed, writes, perm, errors, workspaceFiles, validFiles, scan >>

NextAsync ==
    \/ StartSearch
    \/ CancelSearch
    \/ SearchCancelled
    \/ SearchFile
    \/ NextFolder
    \/ ShowResults
    \/ StartBatch
    \/ ContinueBatch
    \/ FinishBatch

SpecAsync == InitAsync /\ [][NextAsync]_vars

(***************************************************************************)
(* The replace panels alone: each panel is opened by a whole search, the   *)
(* batches run step by step                                                *)
(***************************************************************************)
\* findAndReplaceYamlKey from the command to the open panel
OpenPanel ==
    /\ \E p \in PanelIds : panels[p].st = "closed"
    /\ \E q \in Queries, files \in FileOrders :
          /\ SearchAll(fs, files, q) # << >>
          /\ panels' = [panels EXCEPT ![FirstClosed] =
                           [PanelClosed EXCEPT !.st = "open",
                                               !.results = SearchAll(fs, files, q)]]
    /\ UNCHANGED << review, fs, pc, searchKey, allResults, newValue, totalChanges, fs0, batch,
                    processed, writes, perm, errors, workspaceFiles, validFiles, scan >>

NextPanels ==
    \/ OpenPanel
    \/ StartBatch
    \/ ContinueBatch
    \/ FinishBatch

SpecPanels == InitAsync /\ [][NextPanels]_vars

(***************************************************************************)
(* performReviewReplace step by step                                       *)
(***************************************************************************)
ReviewFilesA == {R_plain, F_nested}
ReviewFilesB == {R_plain, F_nested, L_qb}

InitReview ==
    /\ \E a \in ReviewFilesA, b \in ReviewFilesB :
          fs = [f \in FileNames |-> IF f = "a.yml" THEN a ELSE b]
    /\ InitState

\* panel message 'reviewEach': the panel is disposed, performReviewReplace
\* enters its loop and awaits openTextDocument for the first result
ReviewEach ==
    /\ pc = "panel"
    /\ \E v \in NewValues :
          /\ review' = [ReviewIdle EXCEPT !.st = "opening", !.results = allResults,
                                          !.v = v, !.i = 1]
          /\ newValue' = v
    /\ pc' = "review"
    /\ UNCHANGED << fs, searchKey, allResults, totalChanges, fs0, batch, processed, writes,
                    perm, errors, workspaceFiles, validFiles, scan, panels >>

\* new vscode.Position(line, character) throws 'illegal argument' if the line
\* or the character is negative
PositionThrows(result) == result.line - 1 < 0 \/ result.column - 1 < 0

\* the document is shown: the cursor is placed on the result and the warning
\* message is shown; the exception of Position is caught nowhere
ShowLocation ==
    /\ review.st = "opening"
    /\ review' = [review EXCEPT !.st = IF PositionThrows(review.results[review.i])
                                       THEN "failed" ELSE "prompt"]
    /\ UNCHANGED << fs, pc, searchKey, allResults, newValue, totalChanges, fs0, batch,
                    processed, writes, perm, errors, workspaceFiles, validFiles, scan, panels >>

\* the loop is left: if (totalChanges > 0) showInformationMessage(...)
ReviewEnded(r) == [r EXCEPT !.st = "ended", !.reported = IF r.total > 0 THEN r.total ELSE -1]

\* the next iteration of the for loop, or its end
NextResult(r) ==
    IF r.i < Len(r.results) THEN [r EXCEPT !.st = "opening", !.i = r.i + 1] ELSE ReviewEnded(r)

\* the line of result r is matched by a key pattern as the file is now
MatchesIn(ls, r) == r.line >= 1 /\ r.line <= Len(ls) /\ MatchLine(ls[r.line], r.key).ok

MatchesNow(r) == MatchesIn(SplitNL(fs[r.file]), r)

\* the answer a to the warning message for result i
Answered(r, a) == [r EXCEPT !.log = Append(r.log, [n |-> r.i, act |-> a])]

\* replaceInFile(result.file, [result], newValue) gave the outcome out
ReplaceCurrent(result, out) ==
    /\ fs' = [fs EXCEPT ![result.file] = out.content]
    /\ review' = NextResult([Answered(review, "replace") EXCEPT
                      !.total = review.total + out.changes,
                      !.calls = Append(review.calls, review.i),
                      !.rewritten = IF MatchesNow(result) THEN review.rewritten \cup {review.i}
                                                          ELSE review.rewritten])

\* answer 'Replace'
ChooseReplace ==
    /\ review.st = "prompt"
    /\ ReplaceCurrent(review.results[review.i],
                      BatchRun(fs, << review.results[review.i] >>, review.results[review.i].file,
                               review.v))
    /\ UNCHANGED << pc, searchKey, allResults, newValue, totalChanges, fs0, batch,
                    processed, writes, perm, errors, workspaceFiles, validFiles, scan, panels >>

\* answer 'Skip', or the message is dismissed (action is undefined)
ChooseSkip ==
    /\ review.st = "prompt"
    /\ review' = NextResult(Answered(review, "skip"))
    /\ UNCHANGED << fs, pc, searchKey, allResults, newValue, totalChanges, fs0, batch,
                    processed, writes, perm, errors, workspaceFiles, validFiles, scan, panels >>

\* results.slice(currentIndex - 1)
Remaining(results, currentIndex) == SubSeq(results, currentIndex, Len(results))

\* the remaining results grouped by file, replaceInFile per file with the
\* outcomes runs, then break
ReplaceRemaining(remaining, fl, runs) ==
    /\ fs' = [f \in FileNames |->
                IF InPlan(remaining, f) THEN runs[IndexOf(fl, f)].content ELSE fs[f]]
    /\ review' = ReviewEnded([Answered(review, "all") EXCEPT
                      !.total = review.total + SumChanges(runs),
                      !.calls = review.calls
                                    \o [k \in 1..Len(remaining) |-> review.i + k - 1],
                      !.rewritten = review.rewritten \cup
                            {n \in review.i..Len(review.results) : MatchesNow(review.results[n])}])

ReplaceRemainingOn(remaining, fl) ==
    ReplaceRemaining(remaining, fl, RunFiles(fs, remaining, fl, review.v))

\* answer 'Replace All Remaining'
ChooseReplaceAllRemaining ==
    /\ review.st = "prompt"
    /\ ReplaceRemainingOn(Remaining(review.results, review.i),
                          FilesOf(Remaining(review.results, review.i), {}))
    /\ UNCHANGED << pc, searchKey, allResults, newValue, totalChanges, fs0, batch,
                    processed, writes, perm, errors, workspaceFiles, validFiles, scan, panels >>

\* answer 'Cancel'
ChooseCancel ==
    /\ review.st = "prompt"
    /\ review' = ReviewEnded(Answered(review, "cancel"))
    /\ UNCHANGED << fs, pc, searchKey, allResults, newValue, totalChanges, fs0, batch,
                    processed, writes, perm, errors, workspaceFiles, validFiles, scan, panels >>

NextReview ==
    \/ FindAndReplaceYamlKey
    \/ CancelPanel
    \/ ReviewEach
    \/ ShowLocation
    \/ ChooseReplace
    \/ ChooseSkip
    \/ ChooseReplaceAllRemaining
    \/ ChooseCancel

SpecReview == InitReview /\ [][NextReview]_vars

(***************************************************************************)
(* Definitions used by the properties                                      *)
(***************************************************************************)
\* all records extracted from a file, document by document
FileKeyPaths(content) ==
    LET documents == SplitDocs(content)
    IN  Flatten(ArrayOf([d \in 1..Len(documents) |->
            IF Trim(documents[d]) = << >> THEN << >> ELSE DocKeyPaths(documents[d])]))

\* the key paths of a parsed document, read off the tree
RECURSIVE TreePaths(_, _)
TreePaths(obj, prefix) ==
    IF obj.t # "map" THEN {}
    ELSE UNION {LET p == IF prefix = << >> THEN obj.v[n].k ELSE prefix \o << DOT >> \o obj.v[n].k
                IN  {p} \cup TreePaths(obj.v[n].val, p) : n \in 1..Len(obj.v)}

\* the key paths that exist in the documents of a file
DocumentPaths(content) ==
    LET documents == SplitDocs(content)
    IN  UNION {TreePaths(YamlParse(Trim(documents[d])), << >>) : d \in 1..Len(documents)}

IsScalar(val) == val.t \in {"str", "num", "bool", "null"}
SameScalar(a, b) == IsScalar(a) /\ IsScalar(b) /\ a.t = b.t /\ a.v = b.v

\* the result list of a search is on display
Searched == pc \in {"quickpick", "panel"}

\* the text behind the mapping colon of a line, trimmed
ValueText(line) ==
    IF KeyColon(line) = 0 THEN << >> ELSE Trim(Slice(line, KeyColon(line) + 1, Len(line)))

\* line n of a content, or the empty string if there is no such line
Nth(ls, n) == IF n >= 1 /\ n <= Len(ls) THEN ls[n] ELSE << >>

LineAt(content, n) == Nth(SplitNL(content), n)

InRange(content, n) == n >= 1 /\ n <= Len(SplitNL(content))

(***************************************************************************)
(* C1. Round trip: after a replace operation that rewrote the line of one  *)
(* scalar-valued match, re-extracting the file reads back the new value at *)
(* the path of that match (as the string or as a fresh parse resolves it)  *)
(* and a single-quoted value stays single-quoted.                          *)
(***************************************************************************)
ReadsBack(r) ==
    \E n \in 1..Len(FileKeyPaths(fs[r.file])) :
        LET rec == FileKeyPaths(fs[r.file])[n]
        IN  /\ rec.path = r.path
            /\ \/ SameScalar(rec.value, VStr(newValue))
               \/ SameScalar(rec.value, ResolvePlain(newValue))

QuoteKept(r) ==
    StartsWith(ValueText(LineAt(fs0[r.file], r.line)), << SQ >>)
        => StartsWith(ValueText(LineAt(fs[r.file], r.line)), << SQ >>)

C1_RoundTrip ==
    (pc = "done" /\ Len(batch) = 1 /\ totalChanges = 1 /\ IsScalar(batch[1].value)) =>
        (ReadsBack(batch[1]) /\ QuoteKept(batch[1]))

(***************************************************************************)
(* C2. Exact lookup: if the query is a key path that exists in a document  *)
(* of the workspace, the result list holds a match with that path and      *)
(* isExactMatch = true.                                                    *)
(***************************************************************************)
C2_ExactLookup ==
    (Searched /\ \E f \in FileNames : searchKey \in DocumentPaths(fs0[f])) =>
        \E n \in 1..Len(allResults) :
            allResults[n].path = searchKey /\ allResults[n].isExactMatch

(***************************************************************************)
(* C3. Match classification: per file, the matches are, in order, exactly  *)
(* the extracted records whose path contains the query, one match per      *)
(* record, and a match is exact iff its path equals the query.             *)
(***************************************************************************)
MatchingRecords(records, exact) ==
    SelectSeq(records,
              LAMBDA rec : Includes(rec.path, searchKey) /\ ((rec.path = searchKey) <=> exact))

MatchesOf(f, exact) == SelectSeq(allResults, LAMBDA r : r.file = f /\ r.isExactMatch = exact)

\* the matches ms are the records recs, one for one and in order
SameRecords(ms, recs) ==
    /\ Len(ms) = Len(recs)
    /\ \A n \in 1..Len(ms) : ms[n].path = recs[n].path /\ ms[n].key = recs[n].key

ClassifiedAs(f, records) ==
    \A exact \in BOOLEAN : SameRecords(MatchesOf(f, exact), MatchingRecords(records, exact))

C3_Classification ==
    Searched => \A f \in FileNames : ClassifiedAs(f, FileKeyPaths(fs0[f]))

\* witness: a search returned an exact and a partial match of the same file
C3_Witness ==
    /\ Searched
    /\ \E n, m \in 1..Len(allResults) :
          /\ allResults[n].isExactMatch /\ ~allResults[m].isExactMatch
          /\ allResults[n].file = allResults[m].file

(***************************************************************************)
(* C4. Result ordering: exact matches precede partial matches; inside each *)
(* group the file paths are non-decreasing; matches of one file with the   *)
(* same exactness keep the order in which extraction produced them.        *)
(***************************************************************************)
SameGroup(rs, f, e) == SelectSeq(rs, LAMBDA r : r.file = f /\ r.isExactMatch = e)

\* the matches of file f are in the order of found, group by group
KeepsOrderOf(f, found) ==
    \A e \in BOOLEAN : SameGroup(allResults, f, e) = SameGroup(found, f, e)

C4_Ordering ==
    Searched =>
        /\ \A i, j \in 1..Len(allResults) : i < j =>
              /\ ~(~allResults[i].isExactMatch /\ allResults[j].isExactMatch)
              /\ (allResults[i].isExactMatch = allResults[j].isExactMatch)
                    => FileRank(allResults[i].file) <= FileRank(allResults[j].file)
        /\ \A f \in FileNames : KeepsOrderOf(f, searchKeyInFile(f, fs0[f], searchKey))

\* witness: results of both files in both groups, two partial matches in one file
C4_Witness ==
    /\ Searched
    /\ \E i, j, k, l \in 1..Len(allResults) :
          /\ allResults[i].isExactMatch /\ allResults[i].file = "b.yml"
          /\ ~allResults[j].isExactMatch /\ allResults[j].file = "a.yml"
          /\ k < l /\ allResults[k].file = allResults[l].file
          /\ ~allResults[k].isExactMatch /\ ~allResults[l].isExactMatch

(***************************************************************************)
(* C5. Multi-document line offset: in a file of two documents separated by *)
(* one `---` line (separator on physical line s, so document 1 has s - 1   *)
(* lines), a located key on local line l of document 2 is reported at      *)
(* l + (s - 1) + 1, its physical line.                                     *)
(***************************************************************************)
IsSepLine(l) == StartsWith(l, L_sep)

\* the files split in two documents by a single separator line, neither
\* document starting with a blank line
SepLineOf(content) ==
    LET L == SplitNL(content)
        S == {s \in 1..Len(L) : IsSepLine(L[s])}
    IN  IF /\ Cardinality(S) = 1
           /\ \A s \in S : s > 1 /\ s < Len(L) /\ Trim(L[1]) # << >> /\ Trim(L[s + 1]) # << >>
        THEN CHOOSE s \in S : TRUE
        ELSE 0

SecondDocument(content) ==
    LET L == SplitNL(content) IN JoinNL(Slice(L, SepLineOf(content) + 1, Len(L)))

C5_LineOffset ==
    Searched =>
        \A f \in FileNames : SepLineOf(fs0[f]) > 0 =>
            \A n \in 1..Len(DocKeyPaths(SecondDocument(fs0[f]))) :
                LET rec == DocKeyPaths(SecondDocument(fs0[f]))[n]
                IN  (rec.line # -1 /\ Includes(rec.path, searchKey)) =>
                        \E m \in 1..Len(allResults) :
                            /\ allResults[m].file = f
                            /\ allResults[m].path = rec.path
                            /\ allResults[m].line = rec.line + (SepLineOf(fs0[f]) - 1) + 1

(***************************************************************************)
(* C6. Idempotence: replacing keys with the value they already hold leaves *)
(* the number of lines unchanged and changes, on a rewritten line, nothing *)
(* but the value token: the text up to the value (key, colon and spacing)  *)
(* and the text behind it (trailing comment) stay as they were.            *)
(***************************************************************************)
PrefixToValue(line) ==
    IF KeyColon(line) = 0 THEN line
    ELSE Slice(line, 1, KeyColon(line) + WsRun(line, KeyColon(line) + 1))

TrailingText(line) ==
    LET cs == CommentStart(line, 1)
    IN  IF cs > Len(line) THEN Slice(line, Len(line) - WsRunBack(line, Len(line)) + 1, Len(line))
        ELSE Slice(line, cs - WsRunBack(line, cs - 1), Len(line))

OnlyValueDiffers(old, new) ==
    \/ old = new
    \/ /\ KeyColon(old) > 0
       /\ StartsWith(new, PrefixToValue(old))
       /\ EndsWith(new, TrailingText(old))

HoldsNewValue(r) ==
    SameScalar(r.value, VStr(newValue)) \/ SameScalar(r.value, ResolvePlain(newValue))

C6_Idempotent ==
    (pc = "done" /\ \A n \in 1..Len(batch) : HoldsNewValue(batch[n])) =>
        \A f \in FileNames :
            /\ Len(SplitNL(fs[f])) = Len(SplitNL(fs0[f]))
            /\ \A i \in 1..Len(SplitNL(fs0[f])) :
                  OnlyValueDiffers(LineAt(fs0[f], i), LineAt(fs[f], i))

(***************************************************************************)
(* C7. Boolean coercion: if the value text of the matched line is          *)
(* literally true or false, the rewritten line is the key prefix, one      *)
(* space and true when the new value is "true", "yes" or "1" in any        *)
(* letter case, false for every other new value.                           *)
(***************************************************************************)
Truthy(v) ==
    \E w \in {S_true, S_yes, S_1} : Len(w) = Len(v) /\ \A i \in 1..Len(v) : LowerChar(v[i]) = w[i]

C7_BooleanCoercion ==
    pc = "done" =>
        \A n \in 1..Len(batch) :
            LET old == LineAt(fs0[batch[n].file], batch[n].line)
                new == LineAt(fs[batch[n].file], batch[n].line)
            IN  (InRange(fs0[batch[n].file], batch[n].line) /\ ValueText(old) \in {S_true, S_false}) =>
                    new = Slice(old, 1, KeyColon(old)) \o << SP >>
                              \o (IF Truthy(newValue) THEN S_true ELSE S_false)

\* witness: "b: true" replaced with "no" has become "b: false"
C7_Witness ==
    /\ pc = "done"
    /\ newValue = V_no
    /\ fs0["a.yml"] = R_true
    /\ fs["a.yml"] = << "b", ":", " " >> \o S_false

(***************************************************************************)
(* C8. Batch ordering: replaceInFile processes the matches of a file in    *)
(* descending order of line number, and after the batch every targeted     *)
(* line carries the new value.                                             *)
(***************************************************************************)
Descending(ls) == \A i, j \in 1..Len(ls) : i < j => ls[i] >= ls[j]

\* the value texts that carry the new value v
Carried(v) == {v, QuoteSingle(v), QuoteDouble(v), BoolCoerce(v)}

CarriesNewValue(r) == ValueText(LineAt(fs[r.file], r.line)) \in Carried(newValue)

C8_BatchOrder ==
    pc = "done" =>
        /\ \A f \in FileNames : Descending(processed[f])
        /\ \A n \in 1..Len(batch) : batch[n].line >= 1 => CarriesNewValue(batch[n])

(***************************************************************************)
(* C9. Unmatchable entries never raise: a match whose line is out of range *)
(* or matched by no key pattern is skipped and not counted, its line stays *)
(* as it was, and every other match of the batch is still rewritten.       *)
(***************************************************************************)
Matchable(r) ==
    /\ InRange(fs0[r.file], r.line)
    /\ MatchLine(LineAt(fs0[r.file], r.line), r.key).ok

\* ok[n]: entry n of the batch is matchable
Matchables == ArrayOf([n \in 1..Len(batch) |-> Matchable(batch[n])])

TargetedBy(f, i, ok) ==
    \E n \in 1..Len(batch) : batch[n].file = f /\ batch[n].line = i /\ ok[n]

\* the lines of file f that no matchable entry targets are as they were
OthersKept(f, ok, old, new) ==
    /\ Len(new) = Len(old)
    /\ \A i \in 1..Len(old) : ~TargetedBy(f, i, ok) => new[i] = old[i]

SkipsUnmatchable(ok) ==
    /\ totalChanges = Cardinality({n \in 1..Len(batch) : ok[n]})
    /\ \A n \in 1..Len(batch) : ok[n] => CarriesNewValue(batch[n])
    /\ \A f \in FileNames : OthersKept(f, ok, SplitNL(fs0[f]), SplitNL(fs[f]))

C9_SkipUnmatchable == pc = "done" => SkipsUnmatchable(Matchables)

\* witness: a batch with a match whose line is out of range (-1 or behind the
\* end of the file) and a match of the same file that was rewritten and counted
C9_Witness ==
    /\ pc = "done"
    /\ totalChanges >= 1
    /\ \E n, k \in 1..Len(batch) :
          /\ batch[n].file = batch[k].file
          /\ ~InRange(fs0[batch[n].file], batch[n].line)
          /\ Matchable(batch[k]) /\ CarriesNewValue(batch[k])

(***************************************************************************)
(* C10. No data loss: after a replace operation every key path that a file *)
(* contained before is still contained.                                    *)
(***************************************************************************)
C10_NoDataLoss ==
    pc = "done" => \A f \in FileNames : DocumentPaths(fs0[f]) \subseteq DocumentPaths(fs[f])

(***************************************************************************)
(* C11: if reading or writing one file of a batch fails, replaceInFile     *)
(* throws for that file, performBatchReplace records exactly one error for *)
(* it and leaves it as it was, every other file of the plan holds the      *)
(* outcome of one run of replaceInFile, and the reported total is the sum  *)
(* of the change counts of the files that succeeded.                       *)
(***************************************************************************)
\* what one successful run of replaceInFile does to file f
CleanRun(f, results, v) == replaceInFile(fs[f], ResultsOfFile(results, f), v)

\* the read fails, or there is something to write and the write fails
IOFails(f, results, v) ==
    \/ perm[f] = "unreadable"
    \/ perm[f] = "readonly" /\ CleanRun(f, results, v).changes > 0

Occurrences(s, x) == Cardinality({n \in 1..Len(s) : s[n] = x})

\* the sum of the change counts of successful runs on the files of S
RECURSIVE CleanChanges(_, _, _)
CleanChanges(S, results, v) ==
    IF S = {} THEN 0
    ELSE CleanRun((CHOOSE f \in S : TRUE), results, v).changes
         + CleanChanges(S \ {(CHOOSE f \in S : TRUE)}, results, v)

IsolatedFailure(f, results, v) ==
    IF IOFails(f, results, v)
    THEN Occurrences(errors', f) = 1 /\ fs'[f] = fs[f]
    ELSE /\ Occurrences(errors', f) = 0
         /\ fs'[f] = CleanRun(f, results, v).content
         /\ processed'[f] = CleanRun(f, results, v).order

C11_FailureIsolation ==
    [][pc = "panel" /\ pc' = "done" =>
        /\ \A f \in FileNames :
              IF InPlan(batch', f) THEN IsolatedFailure(f, batch', newValue')
              ELSE Occurrences(errors', f) = 0 /\ fs'[f] = fs[f]
        /\ totalChanges' =
              CleanChanges({f \in FileNames : InPlan(batch', f) /\ ~IOFails(f, batch', newValue')},
                           batch', newValue')]_vars

\* a batch over both files in which the first file failed and the second
\* one was rewritten
C11_Witness ==
    /\ pc = "done"
    /\ Len(errors) = 1
    /\ \E f \in FileNames : InPlan(batch, f) /\ Occurrences(errors, f) = 0 /\ fs[f] # fs0[f]
    /\ FilesOf(batch, {})[1] = errors[1]
    /\ totalChanges > 0

(***************************************************************************)
(* C12: a segment whose parse (or extraction) throws contributes no match  *)
(* and stops nothing: the matches of a file are those of the file in which *)
(* every failed segment is replaced by a segment of as many lines that     *)
(* parses and has no keys, so the other segments are extracted and their   *)
(* lines are the same as if the failed segment had parsed.                 *)
(***************************************************************************)
SegmentFails(docRaw) ==
    \/ YamlParse(Trim(docRaw)).t = "err"
    \/ ExtractThrows(YamlParse(Trim(docRaw)))

\* as many lines as docRaw, each of them a comment
CommentSegment(docRaw) == JoinNL([n \in 1..Len(SplitNL(docRaw)) |-> << HASH >>])

Repaired(documents) ==
    [d \in 1..Len(documents) |->
        IF Trim(documents[d]) # << >> /\ SegmentFails(documents[d])
        THEN CommentSegment(documents[d]) ELSE documents[d]]

RecordsOf(results, f) == {results[n] : n \in {m \in 1..Len(results) : results[m].file = f}}

SeqRange(s) == {s[n] : n \in 1..Len(s)}

C12_ParseFailureIsolation ==
    Searched =>
        \A f \in FileNames :
            RecordsOf(allResults, f) =
                SeqRange(SearchDocs(f, Repaired(SplitDocs(fs0[f])), 1, 0, searchKey))

\* a file whose first segment does not parse and whose later segment matched
C12_Witness ==
    /\ Searched
    /\ Len(SplitDocs(fs0["a.yml"])) = 3
    /\ YamlParse(Trim(SplitDocs(fs0["a.yml"])[1])).t = "err"
    /\ Len(SplitNL(SplitDocs(fs0["a.yml"])[1])) = 3
    /\ ExtractThrows(YamlParse(Trim(SplitDocs(fs0["a.yml"])[2])))
    /\ \E n \in 1..Len(allResults) : allResults[n].file = "a.yml" /\ allResults[n].line > 4

(***************************************************************************)
(* C13: a key whose name holds a regex metacharacter costs at most that    *)
(* key: every key path of a document that holds no such character and      *)
(* contains the query is among the matches of the search.                  *)
(***************************************************************************)
PlainPaths(content) == {P \in DocumentPaths(content) : \A n \in 1..Len(P) : P[n] # PLUS}

C13_WorstCasePerKey ==
    Searched =>
        \A f \in FileNames : \A P \in PlainPaths(fs0[f]) :
            Includes(P, searchKey) =>
                \E n \in 1..Len(allResults) : allResults[n].file = f /\ allResults[n].path = P

(***************************************************************************)
(* C14: among the records extracted from one document segment no two have  *)
(* the same path, whatever the key names are.                              *)
(***************************************************************************)
DistinctPaths(records) ==
    \A m, n \in 1..Len(records) : records[m].path = records[n].path => m = n

C14_PathUniqueness ==
    Searched =>
        \A f \in FileNames : \A d \in 1..Len(SplitDocs(fs0[f])) :
            DistinctPaths(DocKeyPaths(SplitDocs(fs0[f])[d]))

(***************************************************************************)
(* C15: a batch treats a file with CRLF line terminators as it treats the  *)
(* same file with LF terminators: the values of the matched keys are       *)
(* replaced, every line keeps its terminator and the file ends with a      *)
(* newline exactly if it did before.                                       *)
(***************************************************************************)
WithoutCR(content) == JoinNL([n \in 1..Len(SplitNL(content)) |-> StripCR(SplitNL(content)[n])])

EndsWithCR(l) == l # << >> /\ l[Len(l)] = CR

\* the lines ls with the carriage returns of the lines origs put back
RestoreCR(ls, origs) ==
    [n \in 1..Len(ls) |->
        IF n <= Len(origs) /\ EndsWithCR(origs[n]) THEN ls[n] \o << CR >> ELSE ls[n]]

ReplacedAsLF(f) ==
    SplitNL(fs[f]) =
        RestoreCR(SplitNL(replaceInFile(WithoutCR(fs0[f]), ResultsOfFile(batch, f), newValue).content),
                  SplitNL(fs0[f]))

C15_LineEndings ==
    (pc = "done" /\ errors = << >>) => \A f \in FileNames : ReplacedAsLF(f)

(***************************************************************************)
(* C19: replacing a single match for path P changes, in the re-parsed      *)
(* file, the scalar value at P and the scalar value at no other path.      *)
(***************************************************************************)
\* the scalar-valued records of a file as pairs of path and value
ScalarsOf(content) ==
    {<< FileKeyPaths(content)[n].path, FileKeyPaths(content)[n].value >> :
        n \in {m \in 1..Len(FileKeyPaths(content)) : IsScalar(FileKeyPaths(content)[m].value)}}

OnlyPathChanged(before, after, P) ==
    /\ \A pv \in after \ before : pv[1] = P
    /\ \A pv \in before \ after : pv[1] = P

C19_HitsQueriedPath ==
    (pc = "done" /\ Len(batch) = 1 /\ totalChanges = 1 /\ IsScalar(batch[1].value)) =>
        OnlyPathChanged(ScalarsOf(fs0[batch[1].file]), ScalarsOf(fs[batch[1].file]),
                        batch[1].path)

(***************************************************************************)
(* C20: the value text of a rewritten line follows from the original value *)
(* text by the first applicable rule: single-quoted original, single       *)
(* quotes with embedded single quotes doubled; double-quoted original,     *)
(* double quotes with embedded double quotes backslash-escaped; original   *)
(* true or false, boolean coercion; original and new value numeric, the    *)
(* new value as it is; otherwise the new value as it is unless it holds a  *)
(* space, colon, '#' or newline, then in single quotes with embedded       *)
(* single quotes doubled.  (New values without '$'.)                       *)
(***************************************************************************)
\* v with the string e put before every occurrence of the character c
RECURSIVE EscapedWith(_, _, _)
EscapedWith(v, c, e) ==
    IF v = << >> THEN << >>
    ELSE (IF Head(v) = c THEN e ELSE << >>) \o << Head(v) >> \o EscapedWith(Tail(v), c, e)

Wrapped(q, v) ==
    v # << >> /\ v[1] = q /\ v[Len(v)] = q

HasSpecial(v) == \E i \in 1..Len(v) : v[i] = " " \/ v[i] = ":" \/ v[i] = "#" \/ v[i] = "\n"

InferredFormat(orig, v) ==
    CASE Wrapped("'", orig) -> << "'" >> \o EscapedWith(v, "'", << "'" >>) \o << "'" >>
      [] ~Wrapped("'", orig) /\ Wrapped("\"", orig) ->
            << "\"" >> \o EscapedWith(v, "\"", << "\\" >>) \o << "\"" >>
      [] OTHER ->
            IF orig \in {S_true, S_false} THEN (IF Truthy(v) THEN S_true ELSE S_false)
            ELSE IF IsNumeric(orig) /\ IsNumeric(v) THEN v
            ELSE IF HasSpecial(v) THEN << "'" >> \o EscapedWith(v, "'", << "'" >>) \o << "'" >>
            ELSE v

FormattedAs(old, new, v) ==
    new = Slice(old, 1, KeyColon(old)) \o << SP >> \o InferredFormat(ValueText(old), v)

C20_FormatInference ==
    (pc = "done" /\ \A i \in 1..Len(newValue) : newValue[i] # DOLLAR) =>
        \A n \in 1..Len(batch) :
            InRange(fs0[batch[n].file], batch[n].line) =>
                FormattedAs(LineAt(fs0[batch[n].file], batch[n].line),
                            LineAt(fs[batch[n].file], batch[n].line), newValue)

\* 'x' replaced with it's, and 10 replaced with a numeric value that ends
\* with a space
C20_Witness ==
    /\ pc = "done"
    /\ \/ fs0["a.yml"] = R_sq /\ newValue = V_sq
             /\ fs["a.yml"] = << "b", ":", " ", "'", "i", "t", "'", "'", "s", "'" >>
       \/ fs0["a.yml"] = R_num /\ newValue = V_1sp
             /\ fs["a.yml"] = << "b", ":", " ", "1", " " >>

(***************************************************************************)
(* C18: with the default configuration findYamlFiles returns every .yml    *)
(* file and every .yaml file of the workspace folder that is not under an  *)
(* excluded directory.                                                     *)
(***************************************************************************)
\* the names between the slashes of a path, the base name last
RECURSIVE Segments(_, _)
Segments(path, cur) ==
    IF path = << >> THEN << cur >>
    ELSE IF Head(path) = "/" THEN << cur >> \o Segments(Tail(path), << >>)
    ELSE Segments(Tail(path), cur \o << Head(path) >>)

UnderExcluded(path) ==
    \E n \in 1..(Len(Segments(path, << >>)) - 1) : Segments(path, << >>)[n] \in excludePatterns

HasExtension(path, ext) ==
    /\ Len(path) > Len(ext)
    /\ \A n \in 1..Len(ext) : path[Len(path) - Len(ext) + n] = ext[n]

C18_FileCoverage ==
    validFiles.done =>
        \A path \in workspaceFiles :
            ((HasExtension(path, YML) \/ HasExtension(path, YAML)) /\ ~UnderExcluded(path))
                => path \in validFiles.files

(***************************************************************************)
(* C16: replaceInFile is one uninterrupted step, so however the batches of *)
(* the replace panels interleave, when no batch is running the content of  *)
(* each file is what the finished batches give when they are applied to    *)
(* the file one after another in some order: no update is lost.            *)
(***************************************************************************)
\* what the batch of panel p makes of the content c of file f
BatchOn(p, f, c) ==
    IF InPlan(panels[p].results, f)
    THEN replaceInFile(c, ResultsOfFile(panels[p].results, f), panels[p].v).content
    ELSE c

\* the contents the batches of the panels of S give, one after another in any order
RECURSIVE SerialOutcomes(_, _, _)
SerialOutcomes(S, f, c) ==
    IF S = {} THEN {c}
    ELSE UNION {SerialOutcomes(S \ {p}, f, BatchOn(p, f, c)) : p \in S}

Finished == {p \in PanelIds : panels[p].st = "finished"}

C16_NoLostUpdate ==
    (\A p \in PanelIds : panels[p].st # "running") =>
        \A f \in FileNames : fs[f] \in SerialOutcomes(Finished, f, fs0[f])

\* two batches over both files that interleaved: a.yml was rewritten by
\* panel 1 and then by panel 2, b.yml by panel 2 and then by panel 1
C16_Witness ==
    /\ panels[1].st = "finished" /\ panels[2].st = "finished"
    /\ \A p \in {1, 2} : \A f \in FileNames : InPlan(panels[p].results, f)
    /\ fs["a.yml"] = BatchOn(2, "a.yml", BatchOn(1, "a.yml", fs0["a.yml"]))
    /\ fs["a.yml"] # BatchOn(1, "a.yml", BatchOn(2, "a.yml", fs0["a.yml"]))
    /\ fs["b.yml"] = BatchOn(1, "b.yml", BatchOn(2, "b.yml", fs0["b.yml"]))
    /\ fs["b.yml"] # BatchOn(2, "b.yml", BatchOn(1, "b.yml", fs0["b.yml"]))

(***************************************************************************)
(* C17: the cancellation of a search is observed between whole files: once *)
(* it is requested no further file is read and neither a result list nor a *)
(* replace panel is presented; a batch cannot be cancelled and ends only   *)
(* when every file of its plan has been processed.                         *)
(***************************************************************************)
C17_CancellationGranularity ==
    /\ (scan.cancelled /\ scan.st # "idle") => Len(scan.reads) = scan.cancelledAt
    /\ scan.cancelled => scan.out \notin {"list", "panel"}
    /\ \A p \in PanelIds :
          panels[p].st = "finished" => panels[p].i = Len(FilesOf(panels[p].results, {}))

(***************************************************************************)
(* C21: a rewritten line is the prefix of the original line up to the      *)
(* mapping colon, one space and the formatted new value with every         *)
(* character of the new value taken literally (also '$'), and the reported *)
(* total counts every rewritten line once.                                 *)
(***************************************************************************)
ValueOnly(old, new, v) ==
    \E t \in Carried(v) : new = Slice(old, 1, KeyColon(old)) \o << SP >> \o t

C21_ValueOnlyReplacement ==
    pc = "done" =>
        /\ \A n \in 1..Len(batch) :
              Matchable(batch[n]) =>
                  ValueOnly(LineAt(fs0[batch[n].file], batch[n].line),
                            LineAt(fs[batch[n].file], batch[n].line), newValue)
        /\ totalChanges = Cardinality({n \in 1..Len(batch) : Matchable(batch[n])})

(***************************************************************************)
(* C22: in a file of one document that starts with its first key, every    *)
(* match whose key is written on a line (leading whitespace, the key,      *)
(* optional whitespace, a colon) carries the number of the first such line *)
(* and, as column, the 1-based position of the first character of the key  *)
(* on that line.                                                           *)
(***************************************************************************)
\* the line reads: optional whitespace, the key, optional whitespace, a colon
HoldsKey(line, key) == ColonAfterKey(line, 1 + WsRun(line, 1), key, 0, 0) > 0

KeyLines(ls, key) == {i \in 1..Len(ls) : HoldsKey(ls[i], key)}

OneDocument(content) ==
    /\ content # << >> /\ ~IsWs(content[1])
    /\ Len(SplitDocs(content)) = 1

LocatedAt(r, ls) ==
    KeyLines(ls, r.key) # {} =>
        /\ r.line = Min(KeyLines(ls, r.key))
        /\ r.column = WsRun(ls[Min(KeyLines(ls, r.key))], 1) + 1

C22_SourceLocation ==
    Searched =>
        \A n \in 1..Len(allResults) :
            OneDocument(fs[allResults[n].file]) =>
                LocatedAt(allResults[n], SplitNL(fs[allResults[n].file]))

(***************************************************************************)
(* C23: every match of a search carries a path made of mapping keys only:  *)
(* it is one of the key paths that the mappings of the documents of the    *)
(* file give, never a path with the index of a sequence item as a segment. *)
(***************************************************************************)
C23_OnlyMappings ==
    Searched =>
        \A n \in 1..Len(allResults) :
            allResults[n].path \in DocumentPaths(fs[allResults[n].file])

(***************************************************************************)
(* C24: a match whose key was not located on any line of its document      *)
(* (column -1) is delivered with line -1, in whichever document of the     *)
(* file the key is.                                                        *)
(***************************************************************************)
C24_UnresolvedSentinel ==
    Searched =>
        \A n \in 1..Len(allResults) :
            allResults[n].column = -1 => allResults[n].line = -1

(***************************************************************************)
(* C25: a replace operation changes the content of lines only: every file  *)
(* has as many lines after it as before, whatever string the new value is. *)
(***************************************************************************)
C25_LineCount ==
    pc = "done" => \A f \in FileNames : Len(SplitNL(fs[f])) = Len(SplitNL(fs0[f]))

(***************************************************************************)
(* C26: in a replace operation each file is written at most once: once if  *)
(* at least one of its matches could be rewritten, however many there are, *)
(* and not at all otherwise, and then its content is what it was.          *)
(***************************************************************************)
RewritableIn(f) == {n \in 1..Len(batch) : batch[n].file = f /\ Matchable(batch[n])}

C26_OneWritePerBatch ==
    pc = "done" =>
        \A f \in FileNames :
            /\ writes[f] = (IF RewritableIn(f) # {} THEN 1 ELSE 0)
            /\ writes[f] = 0 => fs[f] = fs0[f]

\* a file with two rewritten matches and a file of the same batch with none
C26_Witness ==
    /\ pc = "done"
    /\ \E f, g \in FileNames :
          /\ Cardinality(RewritableIn(f)) >= 2 /\ writes[f] = 1 /\ fs[f] # fs0[f]
          /\ InPlan(batch, g) /\ RewritableIn(g) = {} /\ writes[g] = 0

(***************************************************************************)
(* C27: a replace operation leaves every line that is not the line of a    *)
(* match of the batch as it was and where it was, and writes no file that  *)
(* has no match in the batch.                                              *)
(***************************************************************************)
OnLineOfMatch(f, i) == \E n \in 1..Len(batch) : batch[n].file = f /\ batch[n].line = i

LineKept(old, new, i) == i <= Len(new) /\ new[i] = old[i]

C27_RewriteFrame ==
    pc = "done" =>
        \A f \in FileNames :
            /\ \A i \in 1..Len(SplitNL(fs0[f])) :
                  ~OnLineOfMatch(f, i) => LineKept(SplitNL(fs0[f]), SplitNL(fs[f]), i)
            /\ ~InPlan(batch, f) => (writes[f] = 0 /\ fs[f] = fs0[f])

(***************************************************************************)
(* C28: replaceInFile rewrites the line of a match only if the key written *)
(* on that line is the key of the match: a match whose line holds another  *)
(* key, or no key, leaves the line as it was and is not counted.           *)
(***************************************************************************)
\* the key the line holds for the parser, quotes removed (<< >>: no key)
KeyOfLine(line) == LineEntry(line).key

HoldsKeyOf(r) ==
    /\ InRange(fs0[r.file], r.line)
    /\ KeyOfLine(LineAt(fs0[r.file], r.line)) = r.key

\* line i of file f is the line of a match of the batch whose key it holds
RightlyTargeted(f, i) ==
    \E n \in 1..Len(batch) : batch[n].file = f /\ batch[n].line = i /\ HoldsKeyOf(batch[n])

C28_KeyIdentity ==
    pc = "done" =>
        /\ \A f \in FileNames : \A i \in 1..Len(SplitNL(fs0[f])) :
              ~RightlyTargeted(f, i) => LineAt(fs[f], i) = LineAt(fs0[f], i)
        /\ totalChanges = Cardinality({n \in 1..Len(batch) : HoldsKeyOf(batch[n])})

(***************************************************************************)
(* C30: after a replace operation, replaceInFile called again with the     *)
(* same matches and the same new value leaves every file of the batch as   *)
(* the first call left it.                                                 *)
(***************************************************************************)
AppliedAgain(f) == replaceInFile(fs[f], ResultsOfFile(batch, f), newValue).content

C30_RepeatedReplacement ==
    pc = "done" => \A f \in FileNames : InPlan(batch, f) => AppliedAgain(f) = fs[f]

(***************************************************************************)
(* C29: a review asks about the results in list order; 'Replace' hands the *)
(* current result to replaceInFile, 'Replace All Remaining' the current    *)
(* and all later ones, 'Skip' and 'Cancel' none; no result is handed over  *)
(* twice, a rewritten result keeps the new value, lines that are not the   *)
(* line of a result handed over stay as they were; the review goes on      *)
(* until the last result unless 'Replace All Remaining' or 'Cancel' is     *)
(* chosen, and when it is over the reported total is the number of         *)
(* rewritten results.                                                      *)
(***************************************************************************)
\* the indices of the results that answer k of the log hands to replaceInFile
HandedOver(k) ==
    IF review.log[k].act = "replace" THEN {review.log[k].n}
    ELSE IF review.log[k].act = "all" THEN review.log[k].n..Len(review.results)
    ELSE {}

Over == review.st \in {"ended", "failed"}

AskedInOrder == \A k \in 1..Len(review.log) : review.log[k].n = k

AskedToTheEnd ==
    Over => \/ Len(review.log) = Len(review.results)
            \/ review.log # << >> /\ review.log[Len(review.log)].act \in {"all", "cancel"}

CallsFollowAnswers ==
    /\ SeqRange(review.calls) = UNION {HandedOver(k) : k \in 1..Len(review.log)}
    /\ \A j, k \in 1..Len(review.calls) : j # k => review.calls[j] # review.calls[k]

StayReplaced == \A n \in review.rewritten : CarriesNewValue(review.results[n])

OnLineOfCall(f, i) ==
    \E n \in SeqRange(review.calls) : review.results[n].file = f /\ review.results[n].line = i

OtherLinesKept ==
    \A f \in FileNames :
        /\ Len(SplitNL(fs[f])) = Len(SplitNL(fs0[f]))
        /\ \A i \in 1..Len(SplitNL(fs0[f])) :
              ~OnLineOfCall(f, i) => LineAt(fs[f], i) = LineAt(fs0[f], i)

TotalReported ==
    (Over /\ review.rewritten # {}) => review.reported = Cardinality(review.rewritten)

C29_ReviewProtocol ==
    pc = "review" =>
        /\ AskedInOrder
        /\ AskedToTheEnd
        /\ CallsFollowAnswers
        /\ StayReplaced
        /\ OtherLinesKept
        /\ TotalReported

====
